---- MODULE Spec2Model ----
(***************************************************************************)
(* Model of the fsa-mock core: the FileSystem registry / content store     *)
(* with disk-space accounting, the SyncAccessHandle scratch buffer, and    *)
(* the Permission / PermissionsManager hierarchy.                          *)
(*                                                                         *)
(* Conventions                                                             *)
(*  - A path string is modelled by its sequence of segments                *)
(*    (pathSegments): "" is <<>>, "a/b" is <<"a","b">>.  Only canonical    *)
(*    paths are enumerated.                                                *)
(*  - Descriptor objects live in the heap `objs`; a descriptor is the      *)
(*    index of its object, so object identity (Object.is, Map keys) is     *)
(*    equality of indices.  0 stands for undefined.                        *)
(*  - An ArrayBuffer is the sequence of its bytes.                         *)
(*  - lastModified (Date.now()) is not modelled.                           *)
(***************************************************************************)
EXTENDS Integers, Sequences, FiniteSets, TLC

\* ------------------------------------------------------------------ bounds
Bytes == {0, 1}
MaxObjs == 3
MaxLen == 1
MaxBuf == 2
MaxDisk == 2
MaxHandles == 1
MaxStatuses == 1
MaxRequests == 1
MaxSinks == 1
MaxSinkStatuses == 2
MaxTreeObjs == 5
MaxSpies == 2
MaxSubscriptions == 2
\* calls a spy journal holds before clearMocks() is due
MaxCalls == 2
MaxOverlap == 2
\* the longest a Blob's arrayBuffer() takes to settle, in turns of the job queue
MaxSettle == 2

\* Number.POSITIVE_INFINITY, the default disk size; every comparison with a
\* size goes through Less / Plus below.
Infinity == -1

\* FileSystem: registry, disk, diskSize (fields of the class) and objs (the
\* heap of descriptor objects); copies records which heap objects were made
\* by a caller as {...descriptor}.
\* handles: the SyncAccessHandle objects.
\* PermissionsManager: permissions (the Map, with the Permission objects in
\* it) and promptPermissionProvider; requests: the requestPermission calls
\* in flight.
\* sinks: the WritableFileStreamSink objects.
VARIABLES registry, disk, objs, diskSize, copies, handles,
          permissions, promptPermissionProvider, requests, sinks

fsVars == <<registry, disk, objs, diskSize>>
permVars == <<permissions, promptPermissionProvider, requests>>
vars == <<registry, disk, objs, diskSize, copies, handles,
          permissions, promptPermissionProvider, requests, sinks>>

\* --------------------------------------------------------------- utilities
\* "", "a", "a/b" and "c"
Paths == {<<>>, <<"a">>, <<"a", "b">>, <<"c">>}
\* the keys a registry can hold: Paths and "a/b/c"
TreePaths == Paths \cup {<<"a", "b", "c">>}
NullPath == <<"">>
Root == <<>>

Buffers(n) == UNION {[1..k -> Bytes] : k \in 0..n}

RECURSIVE Zeros(_)
Zeros(n) == IF n <= 0 THEN <<>> ELSE <<0>> \o Zeros(n - 1)

Min(x, y) == IF x < y THEN x ELSE y

IsFinite(x) == x # Infinity

\* x < y on numbers extended with Infinity
Less(x, y) ==
  IF ~IsFinite(x) THEN FALSE
  ELSE IF ~IsFinite(y) THEN TRUE
  ELSE x < y

\* x + y on numbers extended with Infinity
Plus(x, y) == IF IsFinite(x) /\ IsFinite(y) THEN x + y ELSE Infinity

dirname(path) ==
  IF Len(path) = 0 THEN NullPath ELSE SubSeq(path, 1, Len(path) - 1)

IsPrefix(p, s) == Len(p) <= Len(s) /\ SubSeq(s, 1, Len(p)) = p

isSubPath(subPath, path) ==
  IF path # Root THEN Len(subPath) > Len(path) /\ IsPrefix(path, subPath)
  ELSE TRUE

\* The outcome is [err, ret]: an Error is thrown when subPath is not below path
relativePath(subPath, path) ==
  IF ~isSubPath(subPath, path) THEN [err |-> "Error", ret |-> NullPath]
  ELSE [err |-> "none", ret |-> SubSeq(subPath, Len(path) + 1, Len(subPath))]

isChildPath(childPath, path) ==
  IF ~isSubPath(childPath, path) THEN FALSE
  ELSE Len(relativePath(childPath, path).ret) <= 1

\* ----------------------------------------------------- FileSystem (pure)
\* A file system value f is [registry, disk, objs, diskSize]; every
\* operation returns [fs, err, ret, data]: the file system after the call,
\* the name of the error thrown ("none" on return), the returned
\* descriptor or number, and the returned bytes.
Ok(f, r) == [fs |-> f, err |-> "none", ret |-> r, data |-> <<>>]
OkData(f, b) == [fs |-> f, err |-> "none", ret |-> 0, data |-> b]
Throw(f, e) == [fs |-> f, err |-> e, ret |-> 0, data |-> <<>>]

NoEntries == [p \in TreePaths |-> 0]
EmptyDisk == [d \in {} |-> <<>>]
DirDescriptor(path) == [type |-> "dir", fullPath |-> path, size |-> 0]
FileDescriptor(path, size) == [type |-> "file", fullPath |-> path, size |-> size]

FileSystemNew(size) ==
  [registry |-> [NoEntries EXCEPT ![Root] = 1],
   disk |-> EmptyDisk,
   objs |-> <<DirDescriptor(Root)>>,
   diskSize |-> size]

exists(f, path) == f.registry[path] # 0

isDirectory(f, path) ==
  IF f.registry[path] = 0 THEN FALSE
  ELSE f.objs[f.registry[path]].type = "dir"

isFile(f, path) ==
  IF f.registry[path] = 0 THEN FALSE
  ELSE f.objs[f.registry[path]].type = "file"

getDescriptor(f, path) == f.registry[path]

isValidDescriptor(f, d) == getDescriptor(f, f.objs[d].fullPath) = d

RECURSIVE SumLen(_, _)
SumLen(dsk, ids) ==
  IF ids = {} THEN 0
  ELSE LET d == CHOOSE x \in ids : TRUE
       IN Len(dsk[d]) + SumLen(dsk, ids \ {d})

getUsedDiskSpace(f) == SumLen(f.disk, DOMAIN f.disk)

getTotalDiskSpace(f) == f.diskSize

getFreeDiskSpace(f) ==
  IF IsFinite(f.diskSize) THEN f.diskSize - getUsedDiskSpace(f)
  ELSE Infinity

getChildPaths(f, path) ==
  {p \in TreePaths : exists(f, p) /\ p # Root /\ isChildPath(p, path)}

getDescendantPaths(f, path) ==
  IF path = Root THEN {p \in TreePaths : exists(f, p) /\ p # Root}
  ELSE {p \in TreePaths : exists(f, p) /\ isSubPath(p, path)}

\* Register as a descriptor cache would do it: an existing object with the
\* same fields is registered again instead of a new one.
RegisterReusing(f, desc) ==
  LET same == {d \in 1..Len(f.objs) : f.objs[d] = desc}
  IN IF same # {}
     THEN [f EXCEPT !.registry[desc.fullPath] = CHOOSE d \in same : TRUE]
     ELSE [f EXCEPT !.objs = Append(@, desc),
                    !.registry[desc.fullPath] = Len(f.objs) + 1]

\* registry.set(path, descriptor) with a freshly created descriptor object
Register(f, desc) ==
  LET id == Len(f.objs) + 1
  IN [f EXCEPT !.objs = Append(@, desc), !.registry[desc.fullPath] = id]

RECURSIVE makeDirectory(_, _, _)
\* makeDirectory that does not look at the type of an existing parent
makeDirectoryUnderAnything(f, path, recursive) ==
  IF exists(f, path) THEN Throw(f, "TypeError")
  ELSE
    LET dirName == dirname(path)
        parent ==
          IF dirName # NullPath /\ Len(dirName) > 0 /\ ~exists(f, dirName)
          THEN IF ~recursive THEN Throw(f, "TypeError")
               ELSE makeDirectory(f, dirName, recursive)
          ELSE Ok(f, 0)
    IN IF parent.err # "none" THEN parent
       ELSE LET g == Register(parent.fs, DirDescriptor(path))
            IN Ok(g, g.registry[path])

makeDirectory(f, path, recursive) ==
  IF exists(f, path) THEN Throw(f, "TypeError")
  ELSE
    LET dirName == dirname(path)
        parent ==
          IF dirName # NullPath /\ Len(dirName) > 0
          THEN IF ~exists(f, dirName)
               THEN IF ~recursive THEN Throw(f, "TypeError")
                    ELSE makeDirectory(f, dirName, recursive)
               ELSE IF ~isDirectory(f, dirName) THEN Throw(f, "TypeError")
                    ELSE Ok(f, 0)
          ELSE Ok(f, 0)
    IN IF parent.err # "none" THEN parent
       ELSE LET g == Register(parent.fs, DirDescriptor(path))
            IN Ok(g, g.registry[path])

getDirectoryDescriptor(f, path, create) ==
  IF exists(f, path)
  THEN IF isDirectory(f, path) THEN Ok(f, f.registry[path])
       ELSE Throw(f, "TypeMismatchError")
  ELSE IF create THEN makeDirectory(f, path, TRUE)
       ELSE Ok(f, 0)

\* allocateFile comparing the requested size with the total disk space
\* instead of the free space.
allocateFileAgainstTotal(f, path, size) ==
  IF Less(f.diskSize, size) THEN Throw(f, "RangeError")
  ELSE LET g == Register(f, FileDescriptor(path, size))
           id == g.registry[path]
       IN Ok([g EXCEPT !.disk = (id :> Zeros(size)) @@ @], id)

\* allocateFile followed by registry.set in createFile
allocateFile(f, path, size) ==
  LET freeSpace == getFreeDiskSpace(f)
  IN IF Less(freeSpace, size) THEN Throw(f, "RangeError")
     ELSE LET g == Register(f, FileDescriptor(path, size))
              id == g.registry[path]
          IN Ok([g EXCEPT !.disk = (id :> Zeros(size)) @@ @], id)

createFile(f, path, size) ==
  IF exists(f, path) THEN Throw(f, "TypeError")
  ELSE
    LET dirName == dirname(path)
        parent ==
          IF dirName # NullPath /\ Len(dirName) > 0 /\ ~exists(f, dirName)
          THEN makeDirectory(f, dirName, TRUE)
          ELSE Ok(f, 0)
    IN IF parent.err # "none" THEN parent
       ELSE allocateFile(parent.fs, path, size)

getFileDescriptor(f, path, create) ==
  IF exists(f, path)
  THEN IF isFile(f, path) THEN Ok(f, f.registry[path])
       ELSE Throw(f, "TypeMismatchError")
  ELSE IF create THEN createFile(f, path, 0)
       ELSE Ok(f, 0)

readFile(f, d) ==
  IF d \notin DOMAIN f.disk THEN Throw(f, "NotFoundError")
  ELSE OkData(f, f.disk[d])

\* writeFile comparing the new length with the free space alone
writeFileAgainstFree(f, d, data) ==
  IF d \notin DOMAIN f.disk THEN Throw(f, "NotFoundError")
  ELSE IF Less(getFreeDiskSpace(f), Len(data)) THEN Throw(f, "RangeError")
  ELSE Ok([f EXCEPT !.disk[d] = data, !.objs[d].size = Len(data)], 0)

writeFile(f, d, data) ==
  IF d \notin DOMAIN f.disk THEN Throw(f, "NotFoundError")
  ELSE
    LET freeSpace == getFreeDiskSpace(f)
        oldFileSize == Len(f.disk[d])
    IN IF Less(Plus(freeSpace, oldFileSize), Len(data))
       THEN Throw(f, "RangeError")
       ELSE Ok([f EXCEPT !.disk[d] = data, !.objs[d].size = Len(data)], 0)

getFileSize(f, path) ==
  IF isFile(f, path) /\ f.registry[path] \in DOMAIN f.disk
  THEN Len(f.disk[f.registry[path]])
  ELSE -1

Restrict(fn, S) == [x \in S |-> fn[x]]

RECURSIVE remove(_, _, _)
RECURSIVE removeEach(_, _, _)
removeEach(f, paths, recursive) ==
  IF paths = {} THEN Ok(f, 0)
  ELSE LET p == CHOOSE x \in paths : TRUE
           r == remove(f, p, recursive)
       IN IF r.err # "none" THEN r
          ELSE removeEach(r.fs, paths \ {p}, recursive)

\* remove that leaves the content record of a removed file in the store
removeKeepingContent(f, path, recursive) ==
  IF Len(path) = 0 THEN Throw(f, "TypeError")
  ELSE IF isFile(f, path)
  THEN Ok([f EXCEPT !.registry[path] = 0], 0)
  ELSE
    LET childPaths == getChildPaths(f, path)
        children ==
          IF childPaths # {}
          THEN IF ~recursive THEN Throw(f, "InvalidModificationError")
               ELSE removeEach(f, childPaths, recursive)
          ELSE Ok(f, 0)
    IN IF children.err # "none" THEN children
       ELSE Ok([children.fs EXCEPT !.registry[path] = 0], 0)

remove(f, path, recursive) ==
  IF Len(path) = 0 THEN Throw(f, "TypeError")
  ELSE IF isFile(f, path)
  THEN LET d == f.registry[path]
       IN Ok([f EXCEPT !.disk = Restrict(@, DOMAIN @ \ {d}),
                       !.registry[path] = 0], 0)
  ELSE
    LET childPaths == getChildPaths(f, path)
        children ==
          IF childPaths # {}
          THEN IF ~recursive THEN Throw(f, "InvalidModificationError")
               ELSE removeEach(f, childPaths, recursive)
          ELSE Ok(f, 0)
    IN IF children.err # "none" THEN children
       ELSE Ok([children.fs EXCEPT !.registry[path] = 0], 0)

setTotalDiskSpace(f, size) ==
  LET usedSpace == getUsedDiskSpace(f)
  IN IF Less(size, usedSpace) THEN Throw(f, "RangeError")
     ELSE Ok([f EXCEPT !.diskSize = size], 0)

\* purge without disk.clear()
purgeKeepingDisk(f) ==
  Ok(Register([f EXCEPT !.registry = NoEntries], DirDescriptor(Root)), 0)

\* purge that does not register the root again
purgeWithoutRoot(f) == Ok([f EXCEPT !.disk = EmptyDisk, !.registry = NoEntries], 0)

purge(f) ==
  Ok(Register([f EXCEPT !.disk = EmptyDisk, !.registry = NoEntries],
              DirDescriptor(Root)), 0)


\* ------------------------------------------------- buffer utilities (pure)
\* Uint8Array.prototype.slice(start, end) on non-negative offsets
Slice(buf, start, end) == SubSeq(buf, start + 1, Min(end, Len(buf)))

\* copyArrayBuffer: [dest, n, err] where dest is the destination after the
\* copy and n the number of bytes copied.
copyArrayBuffer(source, destination, sourceStartOffset, sourceEndOffset, destinationOffset) ==
  IF \/ sourceStartOffset < 0 \/ sourceStartOffset > Len(source)
     \/ sourceEndOffset < sourceStartOffset
     \/ destinationOffset < 0 \/ destinationOffset > Len(destination)
  THEN [dest |-> destination, n |-> 0, err |-> "RangeError"]
  ELSE
    LET bytesToWrite == sourceEndOffset - sourceStartOffset
        availableMemory == Len(destination) - destinationOffset
        sliceEnd == IF bytesToWrite > availableMemory
                    THEN sourceEndOffset - (bytesToWrite - availableMemory)
                    ELSE sourceEndOffset
        chunk == IF sourceStartOffset # 0 \/ sliceEnd < Len(source)
                 THEN Slice(source, sourceStartOffset, sliceEnd)
                 ELSE source
    IN [dest |-> SubSeq(destination, 1, destinationOffset) \o chunk \o
                 SubSeq(destination, destinationOffset + Len(chunk) + 1,
                        Len(destination)),
        n |-> Len(chunk), err |-> "none"]

concatArrayBuffers(a, b, c) ==
  LET ab == copyArrayBuffer(b, copyArrayBuffer(a, Zeros(Len(a) + Len(b)),
                                               0, Len(a), 0).dest,
                            0, Len(b), Len(a)).dest
  IN copyArrayBuffer(c, copyArrayBuffer(ab, Zeros(Len(ab) + Len(c)),
                                        0, Len(ab), 0).dest,
                     0, Len(c), Len(ab)).dest

appendNullBytes(buffer, count) == concatArrayBuffers(<<>>, buffer, Zeros(count))

\* ------------------------------------------------ SyncAccessHandle (pure)
\* A handle value h is [fileDescriptor, tempFile, state, cursor]; every
\* operation returns [h, fs, err, ret, data].  The `at` option is a set:
\* {} when absent, {n} for {at: n}.
HOk(h, f, r) == [h |-> h, fs |-> f, err |-> "none", ret |-> r, data |-> <<>>]
HOkData(h, f, r, b) == [h |-> h, fs |-> f, err |-> "none", ret |-> r, data |-> b]
HThrow(h, f, e) == [h |-> h, fs |-> f, err |-> e, ret |-> 0, data |-> <<>>]

NoHandle == [fileDescriptor |-> 0, tempFile |-> <<>>, state |-> "closed", cursor |-> 0]

\* constructor
SyncAccessHandleNew(f, d, keepContent) ==
  LET blank == [fileDescriptor |-> d,
                tempFile |-> Zeros(IF keepContent THEN f.objs[d].size ELSE 0),
                state |-> "open", cursor |-> 0]
  IN IF ~keepContent THEN HOk(blank, f, 0)
     ELSE LET content == readFile(f, d)
          IN IF content.err # "none" THEN HThrow(NoHandle, f, content.err)
             ELSE HOk([blank EXCEPT !.tempFile =
                         copyArrayBuffer(content.data, @, 0,
                                         Len(content.data), 0).dest], f, 0)

OptionAt(options, default) ==
  IF options = {} THEN default ELSE CHOOSE n \in options : TRUE

\* ensureNotClosed that never throws
ensureNotClosedPermissive(h) == TRUE

ensureNotClosed(h) == h.state # "closed"

\* ensureHasFreeMemory comparing with the free disk space alone
ensureHasFreeMemoryWithoutOffset(h, f, byteLength) ==
  ~Less(getFreeDiskSpace(f), byteLength)

\* TRUE when ensureHasFreeMemory returns, FALSE when it throws
ensureHasFreeMemory(h, f, byteLength) ==
  LET oldFileSize == f.objs[h.fileDescriptor].size
      freeSpace == Plus(getFreeDiskSpace(f), oldFileSize)
  IN ~Less(freeSpace, byteLength)

\* close that writes the buffer to the disk on the way out
closeFlushing(h, f) ==
  IF h.state = "closed" THEN HOk(h, f, 0)
  ELSE HOk([h EXCEPT !.state = "closed"],
           writeFile(f, h.fileDescriptor, h.tempFile).fs, 0)

close(h, f) ==
  IF h.state = "closed" THEN HOk(h, f, 0)
  ELSE HOk([h EXCEPT !.state = "closed"], f, 0)

\* flush that checks the state and writes nothing
flushWithoutWrite(h, f) ==
  IF ~ensureNotClosed(h) THEN HThrow(h, f, "InvalidStateError")
  ELSE HOk(h, f, 0)

flush(h, f) ==
  IF ~ensureNotClosed(h) THEN HThrow(h, f, "InvalidStateError")
  ELSE LET w == writeFile(f, h.fileDescriptor, h.tempFile)
       IN [h |-> h, fs |-> w.fs, err |-> w.err, ret |-> 0, data |-> <<>>]

getSize(h, f) ==
  IF ~ensureNotClosed(h) THEN HThrow(h, f, "InvalidStateError")
  ELSE HOk(h, f, Len(h.tempFile))

\* read that leaves the cursor where it was
readWithoutAdvancing(h, f, bufferLength, options) ==
  IF ~ensureNotClosed(h) THEN HThrow(h, f, "InvalidStateError")
  ELSE
    LET readStart == OptionAt(options, h.cursor)
        fileSize == Len(h.tempFile)
    IN IF readStart < 0 THEN HThrow(h, f, "TypeError")
       ELSE IF readStart > fileSize THEN HOk(h, f, 0)
       ELSE
         LET readEnd == IF readStart + bufferLength > fileSize THEN fileSize
                        ELSE readStart + bufferLength
             copied == copyArrayBuffer(h.tempFile, Zeros(bufferLength),
                                       readStart, readEnd, 0)
         IN HOkData(h, f, copied.n, SubSeq(copied.dest, 1, copied.n))

read(h, f, bufferLength, options) ==
  IF ~ensureNotClosed(h) THEN HThrow(h, f, "InvalidStateError")
  ELSE
    LET readStart == OptionAt(options, h.cursor)
        fileSize == Len(h.tempFile)
    IN IF readStart < 0 THEN HThrow(h, f, "TypeError")
       ELSE IF readStart > fileSize
       THEN HOk([h EXCEPT !.cursor = fileSize], f, 0)
       ELSE
         LET readEnd == IF readStart + bufferLength > fileSize THEN fileSize
                        ELSE readStart + bufferLength
             copied == copyArrayBuffer(h.tempFile, Zeros(bufferLength),
                                       readStart, readEnd, 0)
         IN HOkData([h EXCEPT !.cursor = readStart + copied.n], f, copied.n,
                    SubSeq(copied.dest, 1, copied.n))

\* truncate without the final clamp of the cursor
truncateKeepingCursor(h, f, bytesLength) ==
  IF ~ensureNotClosed(h) THEN HThrow(h, f, "InvalidStateError")
  ELSE IF bytesLength < 0 THEN HThrow(h, f, "TypeError")
  ELSE IF ~ensureHasFreeMemory(h, f, bytesLength)
  THEN HThrow(h, f, "QuotaExceededError")
  ELSE
    LET oldSize == Len(h.tempFile)
        resized == IF bytesLength > oldSize
                   THEN appendNullBytes(h.tempFile, bytesLength - oldSize)
                   ELSE copyArrayBuffer(h.tempFile, Zeros(bytesLength),
                                        0, bytesLength, 0).dest
    IN HOk([h EXCEPT !.tempFile = resized], f, 0)

truncate(h, f, bytesLength) ==
  IF ~ensureNotClosed(h) THEN HThrow(h, f, "InvalidStateError")
  ELSE IF bytesLength < 0 THEN HThrow(h, f, "TypeError")
  ELSE IF ~ensureHasFreeMemory(h, f, bytesLength)
  THEN HThrow(h, f, "QuotaExceededError")
  ELSE
    LET oldSize == Len(h.tempFile)
        resized == IF bytesLength > oldSize
                   THEN appendNullBytes(h.tempFile, bytesLength - oldSize)
                   ELSE copyArrayBuffer(h.tempFile, Zeros(bytesLength),
                                        0, bytesLength, 0).dest
    IN HOk([h EXCEPT !.tempFile = resized,
                     !.cursor = IF @ > bytesLength THEN bytesLength ELSE @],
           f, 0)

\* write that never keeps the tail behind the written region
writeDroppingTail(h, f, buffer, options) ==
  IF ~ensureNotClosed(h) THEN HThrow(h, f, "InvalidStateError")
  ELSE
    LET writePosition == OptionAt(options, h.cursor)
    IN IF writePosition < 0 THEN HThrow(h, f, "TypeError")
       ELSE
         LET oldSize == Len(h.tempFile)
             bufferSize == Len(buffer)
             fileContents == IF writePosition > oldSize
                             THEN appendNullBytes(h.tempFile,
                                                  writePosition - oldSize)
                             ELSE h.tempFile
             head == Slice(fileContents, 0, writePosition)
             newSize == Len(head) + bufferSize
             padded == [h EXCEPT !.tempFile = fileContents]
         IN IF ~ensureHasFreeMemory(padded, f, newSize)
            THEN HThrow(padded, f, "QuotaExceededError")
            ELSE HOk([padded EXCEPT
                        !.tempFile = concatArrayBuffers(head, buffer, <<>>),
                        !.cursor = writePosition + bufferSize],
                     f, bufferSize)

\* write that moves the cursor only when no `at` option is given
writeKeepingCursorAt(h, f, buffer, options) ==
  IF ~ensureNotClosed(h) THEN HThrow(h, f, "InvalidStateError")
  ELSE
    LET writePosition == OptionAt(options, h.cursor)
    IN IF writePosition < 0 THEN HThrow(h, f, "TypeError")
       ELSE
         LET oldSize == Len(h.tempFile)
             bufferSize == Len(buffer)
             fileContents == IF writePosition > oldSize
                             THEN appendNullBytes(h.tempFile,
                                                  writePosition - oldSize)
                             ELSE h.tempFile
             head == Slice(fileContents, 0, writePosition)
             tail == IF writePosition + bufferSize < oldSize
                     THEN Slice(fileContents,
                                Len(fileContents) -
                                  (oldSize - (writePosition + bufferSize)),
                                Len(fileContents))
                     ELSE <<>>
             newSize == Len(head) + bufferSize + Len(tail)
             padded == [h EXCEPT !.tempFile = fileContents]
         IN IF ~ensureHasFreeMemory(padded, f, newSize)
            THEN HThrow(padded, f, "QuotaExceededError")
            ELSE HOk([padded EXCEPT
                        !.tempFile = concatArrayBuffers(head, buffer, tail),
                        !.cursor = IF options = {} THEN writePosition + bufferSize
                                   ELSE @],
                     f, bufferSize)

write(h, f, buffer, options) ==
  IF ~ensureNotClosed(h) THEN HThrow(h, f, "InvalidStateError")
  ELSE
    LET writePosition == OptionAt(options, h.cursor)
    IN IF writePosition < 0 THEN HThrow(h, f, "TypeError")
       ELSE
         LET oldSize == Len(h.tempFile)
             bufferSize == Len(buffer)
             \* this.tempFile is reassigned before the quota check
             fileContents == IF writePosition > oldSize
                             THEN appendNullBytes(h.tempFile,
                                                  writePosition - oldSize)
                             ELSE h.tempFile
             head == Slice(fileContents, 0, writePosition)
             tail == IF writePosition + bufferSize < oldSize
                     THEN Slice(fileContents,
                                Len(fileContents) -
                                  (oldSize - (writePosition + bufferSize)),
                                Len(fileContents))
                     ELSE <<>>
             newSize == Len(head) + bufferSize + Len(tail)
             padded == [h EXCEPT !.tempFile = fileContents]
         IN IF ~ensureHasFreeMemory(padded, f, newSize)
            THEN HThrow(padded, f, "QuotaExceededError")
            ELSE HOk([padded EXCEPT
                        !.tempFile = concatArrayBuffers(head, buffer, tail),
                        !.cursor = writePosition + bufferSize],
                     f, bufferSize)



\* ------------------------------------------------------- Permission (pure)
\* A Permission object is [read, readwrite, subscribers, touched, calls]:
\* subscribers maps a mode to the array of callbacks subscribed to it, a
\* callback being either the one a child Permission registered in
\* findOrCreatePermission ([kind |-> "permission", path |-> child]) or the
\* one a FileSystemPermissionStatus registered ([kind |-> "status"]).
\* touched records that setRead or setReadwrite was called on the object.
\* A third kind of callback is the spy the unit tests subscribe
\* ([kind |-> "spy", path |-> p, id |-> k], a vi.fn() subscribed to the
\* Permission of p): calls is the record of the spies' invocations on the
\* object, each with the argument and with what getRead() and
\* getReadwrite() answer at that moment.
\* The operations act on a heap pm of Permission objects indexed by path
\* and return the heap after the call.
States == {"granted", "prompt", "denied"}
ResolvedStates == {"granted", "denied"}
Modes == {"read", "readwrite"}
Literals == [read : States, readwrite : States]

NoSubscribers == [read |-> <<>>, readwrite |-> <<>>]

NoPermission ==
  [read |-> "absent", readwrite |-> "absent", subscribers |-> NoSubscribers,
   touched |-> FALSE, calls |-> <<>>]

PermissionNew(readState, readwriteState) ==
  [read |-> readState, readwrite |-> readwriteState, subscribers |-> NoSubscribers,
   touched |-> FALSE, calls |-> <<>>]

PermissionCallback(path) == [kind |-> "permission", path |-> path]
StatusCallback(path) == [kind |-> "status", path |-> path]
SpyCallback(path, id) == [kind |-> "spy", path |-> path, id |-> id]

getRead(pm, p) == pm[p].read
getReadwrite(pm, p) == pm[p].readwrite
get(pm, p, mode) == IF mode = "readwrite" THEN getReadwrite(pm, p) ELSE getRead(pm, p)

subscribe(pm, p, mode, callback) ==
  [pm EXCEPT ![p].subscribers[mode] = Append(@, callback)]

\* index is callbacks.indexOf(callback), 0 for the -1 of the code, and the
\* new array is callbacks.splice(index, 1)
unsubscribe(pm, p, mode, callback) ==
  LET callbacks == pm[p].subscribers[mode]
      index == IF \E i \in 1..Len(callbacks) : callbacks[i] = callback
               THEN CHOOSE i \in 1..Len(callbacks) :
                      /\ callbacks[i] = callback
                      /\ \A j \in 1..(i - 1) : callbacks[j] # callback
               ELSE 0
  IN IF index = 0 THEN pm
     ELSE [pm EXCEPT ![p].subscribers[mode] =
             [k \in 1..(Len(callbacks) - 1) |->
                IF k < index THEN callbacks[k] ELSE callbacks[k + 1]]]

RECURSIVE setRead(_, _, _)
RECURSIVE setReadwrite(_, _, _)
RECURSIVE notifyFrom(_, _, _, _, _)

\* callbacks.forEach((cb) => cb(newState)) from index i on
notifyFrom(pm, callbacks, i, mode, newState) ==
  IF i > Len(callbacks) THEN pm
  ELSE
    LET cb == callbacks[i]
        after == IF cb.kind = "permission"
                 THEN IF mode = "read" THEN setRead(pm, cb.path, newState)
                      ELSE setReadwrite(pm, cb.path, newState)
                 ELSE IF cb.kind = "spy"
                 THEN [pm EXCEPT ![cb.path].calls =
                         Append(@, [callback |-> cb, mode |-> mode,
                                    newState |-> newState,
                                    read |-> pm[cb.path].read,
                                    readwrite |-> pm[cb.path].readwrite])]
                 ELSE pm
    IN notifyFrom(after, callbacks, i + 1, mode, newState)

notify(pm, p, mode, newState) ==
  notifyFrom(pm, pm[p].subscribers[mode], 1, mode, newState)

\* setRead without the closing setReadwrite(state) for a non-granted state
setReadAlone(pm, p, state) ==
  LET oldState == pm[p].read
      assigned == [pm EXCEPT ![p].read = state, ![p].touched = TRUE]
  IN IF oldState # state THEN notify(assigned, p, "read", state)
     ELSE assigned

setRead(pm, p, state) ==
  LET oldState == pm[p].read
      assigned == [pm EXCEPT ![p].read = state, ![p].touched = TRUE]
      notified == IF oldState # state THEN notify(assigned, p, "read", state)
                  ELSE assigned
  IN IF state # "granted" THEN setReadwrite(notified, p, state) ELSE notified

\* setReadwrite without the opening setRead("granted")
setReadwriteUncoupled(pm, p, state) ==
  LET oldState == pm[p].readwrite
      assigned == [pm EXCEPT ![p].readwrite = state, ![p].touched = TRUE]
  IN IF oldState # state THEN notify(assigned, p, "readwrite", state)
     ELSE assigned

setReadwrite(pm, p, state) ==
  LET coupled == IF state = "granted" THEN setRead(pm, p, state) ELSE pm
      oldState == coupled[p].readwrite
      assigned == [coupled EXCEPT ![p].readwrite = state, ![p].touched = TRUE]
  IN IF oldState # state THEN notify(assigned, p, "readwrite", state)
     ELSE assigned

set(pm, p, mode, state) ==
  IF mode = "readwrite" THEN setReadwrite(pm, p, state) ELSE setRead(pm, p, state)

\* ----------------------------------------------- PermissionsManager (pure)
\* Every operation takes the permissions heap pm and the file system f and
\* returns [pm, err, ret]; initial is what PermissionsProvider.initial
\* returns for each path during the call.
POk(pm, r) == [pm |-> pm, err |-> "none", ret |-> r]
PThrow(pm, e) == [pm |-> pm, err |-> e, ret |-> "none"]

NoPermissions == [p \in TreePaths |-> NoPermission]

ensureIsValidPath(f, path) == exists(f, path)

\* ensureIsValidMode accepting every string
ensureIsValidModeAny(mode) == TRUE

ensureIsValidMode(mode) == mode = "read" \/ mode = "readwrite"

RECURSIVE findOrCreatePermission(_, _, _)
findOrCreatePermission(pm, path, initial) ==
  IF pm[path] # NoPermission THEN pm
  ELSE
    LET permission == PermissionNew(initial[path].read, initial[path].readwrite)
    IN IF Len(path) > 0 /\ dirname(path) # NullPath
       THEN
         LET parentPath == dirname(path)
             withParent == findOrCreatePermission(pm, parentPath, initial)
             created == [withParent EXCEPT ![path] = permission]
             inherited ==
               setReadwrite(setRead(created, path, getRead(created, parentPath)),
                            path, getReadwrite(created, parentPath))
         IN subscribe(subscribe(inherited, parentPath, "read",
                                PermissionCallback(path)),
                      parentPath, "readwrite", PermissionCallback(path))
       ELSE [pm EXCEPT ![path] = permission]

\* getPermission: the heap with the Permission of path in it, or the error
getPermission(pm, f, path, initial) ==
  IF ~ensureIsValidPath(f, path) THEN PThrow(pm, "TypeError")
  ELSE POk(findOrCreatePermission(pm, path, initial), "none")

getStatus(pm, f, path, mode, initial) ==
  IF ~ensureIsValidMode(mode) THEN PThrow(pm, "TypeError")
  ELSE LET got == getPermission(pm, f, path, initial)
       IN IF got.err # "none" THEN got
          ELSE POk(subscribe(got.pm, path, mode, StatusCallback(path)),
                   get(got.pm, path, mode))

getState(pm, f, path, mode, initial) ==
  IF ~ensureIsValidMode(mode) THEN PThrow(pm, "TypeError")
  ELSE LET got == getPermission(pm, f, path, initial)
       IN IF got.err # "none" THEN got
          ELSE POk(got.pm, get(got.pm, path, mode))

setState(pm, f, path, mode, state, initial) ==
  IF ~ensureIsValidMode(mode) THEN PThrow(pm, "TypeError")
  ELSE LET got == getPermission(pm, f, path, initial)
       IN IF got.err # "none" THEN got
          ELSE POk(set(got.pm, path, mode, state), "none")

duplicate(pm, f, from, to, initial) ==
  LET source == getPermission(pm, f, from, initial)
  IN IF source.err # "none" THEN source
     ELSE LET destination == getPermission(source.pm, f, to, initial)
          IN IF destination.err # "none" THEN destination
             ELSE LET copiedRead ==
                        setRead(destination.pm, to, getRead(destination.pm, from))
                  IN POk(setReadwrite(copiedRead, to,
                                      getReadwrite(copiedRead, from)), "none")

\* promptPermission: which resolver is invoked
promptPermission(override) == IF override THEN "override" ELSE "provider"

\* requestPermission up to its await: [pm, err, ret, resolver].  resolver
\* names the resolver that was invoked ("none" when none was); ret is the
\* state returned, or "pending" while the call awaits the resolver.
requestPermission(pm, f, override, path, mode, initial) ==
  IF ~ensureIsValidMode(mode)
  THEN [pm |-> pm, err |-> "TypeError", ret |-> "none", resolver |-> "none"]
  ELSE
    LET got == getPermission(pm, f, path, initial)
    IN IF got.err # "none"
       THEN [pm |-> pm, err |-> got.err, ret |-> "none", resolver |-> "none"]
       ELSE IF get(got.pm, path, mode) = "prompt"
       THEN [pm |-> got.pm, err |-> "none", ret |-> "pending",
             resolver |-> promptPermission(override)]
       ELSE [pm |-> got.pm, err |-> "none", ret |-> get(got.pm, path, mode),
             resolver |-> "none"]

\* requestPermission after its await, the resolver having answered state
requestPermissionResume(pm, path, mode, state) ==
  POk(set(pm, path, mode, state), state)


\* ------------------------------------------------- DirectoryHandle (pure)
\* getDirectoryHandle(name, {create}) and getFileHandle(name, {create}) of
\* the DirectoryHandle of descriptor d, child being getChildPath(name).
\* prepareHandlePath up to its await: ensureCurrentEntryExists, then the
\* call of requestPermission or queryPermission on the handle's own path.
\* The outcome is that of requestPermission: [pm, err, ret, resolver].
prepareHandlePath(pm, f, override, d, create, initial) ==
  LET query(g) == [pm |-> g.pm, err |-> g.err, ret |-> g.ret, resolver |-> "none"]
  IN IF ~isValidDescriptor(f, d)
     THEN [pm |-> pm, err |-> "NotFoundError", ret |-> "none", resolver |-> "none"]
     ELSE IF create
     THEN requestPermission(pm, f, override, f.objs[d].fullPath, "readwrite", initial)
     ELSE query(getState(pm, f, f.objs[d].fullPath, "read", initial))

\* ensurePermissionGranted and prepareHandlePath after their awaits, state
\* being the permission state awaited: "none" when prepareHandlePath returns
\* the path of child, the error it rejects with otherwise.
prepareHandlePathResume(f, child, create, isFileHandle, state) ==
  IF state # "granted" THEN "NotAllowedError"
  ELSE IF ~create /\ ~exists(f, child) THEN "NotFoundError"
  ELSE IF (~isFileHandle /\ isFile(f, child)) \/ (isFileHandle /\ isDirectory(f, child))
  THEN "TypeMismatchError"
  ELSE "none"

\* getFileHandle or getDirectoryHandle after `await this.prepareHandlePath`:
\* the descriptor from the FileSystem, then createFileHandle or
\* createDirectoryHandle.  The outcome is [fs, pm, err].
getHandle(pm, f, d, child, create, isFileHandle, initial) ==
  LET created(r) ==
        IF r.err # "none" THEN [fs |-> f, pm |-> pm, err |-> r.err]
        ELSE IF r.ret = 0 THEN [fs |-> f, pm |-> pm, err |-> "NotFoundError"]
        ELSE LET both(copied) == [fs |-> r.fs, pm |-> copied.pm, err |-> copied.err]
             IN both(duplicate(pm, r.fs, f.objs[d].fullPath, child, initial))
  IN IF isFileHandle THEN created(getFileDescriptor(f, child, create))
     ELSE created(getDirectoryDescriptor(f, child, create))

\* removeEntry(name, {recursive}) after `await this.ensurePermissionGranted`,
\* child being getChildPath(name).  The outcome is that of remove.
removeEntryResume(f, child, recursive, state) ==
  IF state # "granted" THEN Throw(f, "NotAllowedError")
  ELSE IF ~exists(f, child) THEN Throw(f, "NotFoundError")
  ELSE remove(f, child, recursive)

\* ------------------------------------------ WritableFileStreamSink (pure)
\* A sink value s is [syncAccessHandle, descriptor, cursor, fileSize,
\* isClosed, error], syncAccessHandle being the index of its handle.  Every
\* operation takes the sink, its handle h, the file system f and the
\* permissions heap pm and returns [s, h, fs, pm, err].  sinkWrite is a
\* write call awaited with nothing running during its await; sinkWriteStart
\* and doWrite are its two halves, before and after the await.
\* error holds the name of the stored error or the abort reason; Undefined
\* is the unset field, and the falsy reason of abort().
Undefined == "undefined"
Truthy(e) == e # Undefined
Reasons == {Undefined, "reason"}

SinkOut(s, h, f, pm, e) == [s |-> s, h |-> h, fs |-> f, pm |-> pm, err |-> e]

\* A property of a command object: not in the object, undefined or null, a
\* number, or a value Number() turns into NaN.
AbsentField == [kind |-> "absent", n |-> 0]
UndefinedField == [kind |-> "undefined", n |-> 0]
NaNField == [kind |-> "NaN", n |-> 0]
NumberField(n) == [kind |-> "number", n |-> n]
Fields ==
  {AbsentField, UndefinedField, NaNField}
  \cup {NumberField(n) : n \in (-1)..MaxBuf}

\* data of a command: {} when undefined or null, {buffer} otherwise
DataOptions == {{}} \cup {{b} : b \in Buffers(MaxLen)}

\* FileSystemWriteChunkType: a bare payload, or a command object
Chunks ==
  [type : {"bare"}, data : {{b} : b \in Buffers(MaxLen)},
   position : {AbsentField}, size : {AbsentField}]
  \cup [type : {"write"}, data : DataOptions, position : Fields,
        size : {AbsentField}]
  \cup [type : {"seek"}, data : {{}}, position : Fields, size : {AbsentField}]
  \cup [type : {"truncate"}, data : {{}}, position : {AbsentField},
        size : Fields]
  \cup [type : {"something"}, data : {{}}, position : {AbsentField},
        size : {AbsentField}]

\* constructor, on the handle with index handleIndex and value h
WritableFileStreamSinkNew(handleIndex, h, d) ==
  [syncAccessHandle |-> handleIndex, descriptor |-> d, cursor |-> 0,
   fileSize |-> Len(h.tempFile), isClosed |-> FALSE, error |-> Undefined]

convertToWriteParams(chunk) ==
  IF chunk.type = "bare" THEN [chunk EXCEPT !.type = "write"] ELSE chunk

\* "none" when the command is valid, the error thrown otherwise
validateWriteCommand(command) ==
  IF command.type = "write"
  THEN IF command.data = {} THEN "TypeError" ELSE "none"
  ELSE IF command.type = "truncate"
  THEN IF command.size \in {AbsentField, UndefinedField} THEN "TypeError"
       ELSE "none"
  ELSE IF command.type = "seek"
  THEN IF command.position \in {AbsentField, UndefinedField} THEN "TypeError"
       ELSE "none"
  ELSE "TypeError"

prepareTruncateSize(size) ==
  IF size.kind # "number" THEN 0
  ELSE IF size.n > 0 THEN size.n ELSE 0

prepareSeekPosition(position) == prepareTruncateSize(position)

\* ensureHasWritePermission rejecting only the "denied" state
ensureHasWritePermissionDeniedOnly(s, f, pm, initial) ==
  LET compare(status) ==
        [pm |-> status.pm,
         err |-> IF status.err # "none" THEN status.err
                 ELSE IF status.ret = "denied" THEN "NotAllowedError"
                 ELSE "none"]
  IN compare(getStatus(pm, f, f.objs[s.descriptor].fullPath, "readwrite",
                       initial))

\* [pm, err]: getStatus subscribes a FileSystemPermissionStatus before the
\* state is compared
ensureHasWritePermission(s, f, pm, initial) ==
  LET compare(status) ==
        [pm |-> status.pm,
         err |-> IF status.err # "none" THEN status.err
                 ELSE IF status.ret # "granted" THEN "NotAllowedError"
                 ELSE "none"]
  IN compare(getStatus(pm, f, f.objs[s.descriptor].fullPath, "readwrite",
                       initial))

sinkEnsureNotClosed(s) == ~s.isClosed

ensureNotInErrorState(s) == ~Truthy(s.error)

doTruncate(s, h, f, pm, size) ==
  LET truncated(t) ==
        IF t.err # "none" THEN SinkOut(s, t.h, f, pm, t.err)
        ELSE SinkOut([s EXCEPT !.cursor = IF size < @ THEN size ELSE @,
                               !.fileSize = size],
                     t.h, f, pm, "none")
  IN truncated(truncate(h, f, size))

doSeek(s, h, f, pm, position) ==
  SinkOut([s EXCEPT !.cursor = position], h, f, pm, "none")

doWrite(s, h, f, pm, buffer, position) ==
  LET written(grown, w) ==
        IF w.err # "none" THEN SinkOut(grown.s, w.h, f, pm, w.err)
        ELSE SinkOut([grown.s EXCEPT !.cursor = position + w.ret],
                     w.h, f, pm, "none")
      afterTruncate(grown) ==
        IF grown.err # "none" THEN grown
        ELSE written(grown, write(grown.h, f, buffer, {position}))
  IN afterTruncate(IF Len(buffer) + position > s.fileSize
                   THEN doTruncate(s, h, f, pm, Len(buffer) + position)
                   ELSE SinkOut(s, h, f, pm, "none"))

\* What the try block of write does: the command's result, and whether an
\* error it ends with is thrown inside the try block (caught and stored) or
\* is the rejection of the promise doWrite returned (not caught).
sinkWriteCommand(s, h, f, pm, chunk) ==
  LET writeParams == convertToWriteParams(chunk)
      invalid == validateWriteCommand(writeParams)
  IN IF invalid # "none"
     THEN [out |-> SinkOut(s, h, f, pm, invalid), caught |-> TRUE]
     ELSE IF writeParams.type = "write"
     THEN [out |-> doWrite(s, h, f, pm, CHOOSE b \in writeParams.data : TRUE,
                           IF writeParams.position = AbsentField
                           THEN s.cursor
                           ELSE prepareSeekPosition(writeParams.position)),
           caught |-> FALSE]
     ELSE IF writeParams.type = "seek"
     THEN [out |-> doSeek(s, h, f, pm,
                          prepareSeekPosition(writeParams.position)),
           caught |-> TRUE]
     ELSE [out |-> doTruncate(s, h, f, pm,
                              prepareTruncateSize(writeParams.size)),
           caught |-> TRUE]

\* write up to the await in doWrite.  The outcome is [pm, awaits]: awaits
\* holds the [buffer, position] of the doWrite call whose promise write
\* returns, position being computed at the call, and is empty when write
\* settles without calling doWrite.
sinkWriteStart(s, f, pm, chunk, initial) ==
  LET writeParams == convertToWriteParams(chunk)
      try(allowed) ==
        [pm |-> allowed.pm,
         awaits |-> IF /\ allowed.err = "none"
                       /\ validateWriteCommand(writeParams) = "none"
                       /\ writeParams.type = "write"
                    THEN {[buffer |-> CHOOSE b \in writeParams.data : TRUE,
                           position |->
                             IF writeParams.position = AbsentField
                             THEN s.cursor
                             ELSE prepareSeekPosition(writeParams.position)]}
                    ELSE {}]
  IN IF ~ensureNotInErrorState(s) \/ ~sinkEnsureNotClosed(s)
     THEN [pm |-> pm, awaits |-> {}]
     ELSE try(ensureHasWritePermission(s, f, pm, initial))

sinkWrite(s, h, f, pm, chunk, initial) ==
  LET catch(c) ==
        IF c.out.err # "none" /\ c.caught
        THEN [c.out EXCEPT !.s.error = c.out.err]
        ELSE c.out
      try(allowed) ==
        IF allowed.err # "none" THEN SinkOut(s, h, f, allowed.pm, allowed.err)
        ELSE catch(sinkWriteCommand(s, h, f, allowed.pm, chunk))
  IN IF ~ensureNotInErrorState(s) THEN SinkOut(s, h, f, pm, s.error)
     ELSE IF ~sinkEnsureNotClosed(s) THEN SinkOut(s, h, f, pm, "TypeError")
     ELSE try(ensureHasWritePermission(s, f, pm, initial))

\* A bare payload as the chunk of a write call
BareChunk(buffer) ==
  [type |-> "bare", data |-> {buffer}, position |-> AbsentField,
   size |-> AbsentField]

\* Two write calls with bare payloads payload1 and payload2, the second
\* made before the first is awaited.  Each call runs its checks,
\* ensureHasWritePermission subscribing a FileSystemPermissionStatus, and
\* stops at the await in doWrite, its position being the default parameter
\* `position = this.cursor` evaluated at the call.  Each doWrite resumes
\* when its own convertToArrayBuffer settles: that of a BufferSource or
\* string at once, that of a Blob when data.arrayBuffer() settles, which is
\* later and takes payload.settles turns, a number that depends on how the
\* Blob was built (a Blob of two parts settles after a Blob of one).  The
\* rest of the first doWrite runs before that of the second unless the
\* first payload is a Blob and the second is not a Blob or is a Blob that
\* settles sooner.  A first call that settles without reaching doWrite is
\* over when the second is made.  err is what the promise of the second
\* call settles to.
sinkWriteUnawaited(s, h, f, pm, payload1, payload2, initial) ==
  LET resumed(before, w) == doWrite(before.s, before.h, before.fs, before.pm, w.buffer, w.position)
      overtaken(second, w1) == [resumed(second, w1) EXCEPT !.err = second.err]
      resumedFirst(start2) ==
        doWrite(s, h, f, start2.pm, (CHOOSE w \in start2.awaits : TRUE).buffer,
                (CHOOSE w \in start2.awaits : TRUE).position)
      settledSecond(first) ==
        [first EXCEPT !.err = sinkWrite(s, h, f, pm, BareChunk(payload2.buffer), initial).err]
      both(w1, start2) ==
        IF start2.awaits = {}
        THEN settledSecond(doWrite(s, h, f, start2.pm, w1.buffer, w1.position))
        ELSE IF payload1.blob /\ (~payload2.blob \/ payload1.settles > payload2.settles)
        THEN overtaken(resumedFirst(start2), w1)
        ELSE resumed(doWrite(s, h, f, start2.pm, w1.buffer, w1.position),
                     CHOOSE w \in start2.awaits : TRUE)
      settled(first) == sinkWrite(first.s, first.h, first.fs, first.pm, BareChunk(payload2.buffer), initial)
      begun(start1) ==
        IF start1.awaits = {}
        THEN settled(sinkWrite(s, h, f, pm, BareChunk(payload1.buffer), initial))
        ELSE both(CHOOSE w \in start1.awaits : TRUE,
                  sinkWriteStart(s, f, start1.pm, BareChunk(payload2.buffer), initial))
  IN begun(sinkWriteStart(s, f, pm, BareChunk(payload1.buffer), initial))

\* close that closes the handle and leaves its buffer unflushed
sinkCloseWithoutFlush(s, h, f, pm, initial) ==
  LET closing(allowed) ==
        IF allowed.err # "none" THEN SinkOut(s, h, f, allowed.pm, allowed.err)
        ELSE IF Truthy(s.error) THEN SinkOut(s, h, f, allowed.pm, "TypeError")
        ELSE SinkOut([s EXCEPT !.isClosed = TRUE], close(h, f).h, f,
                     allowed.pm, "none")
  IN IF ~sinkEnsureNotClosed(s) THEN SinkOut(s, h, f, pm, "TypeError")
     ELSE closing(ensureHasWritePermission(s, f, pm, initial))

sinkClose(s, h, f, pm, initial) ==
  LET closed == [s EXCEPT !.isClosed = TRUE]
      flushing(allowed, flushed) ==
        IF flushed.err # "none"
        THEN SinkOut(closed, flushed.h, flushed.fs, allowed.pm, flushed.err)
        ELSE SinkOut(closed, close(flushed.h, flushed.fs).h, flushed.fs,
                     allowed.pm, "none")
      closing(allowed) ==
        IF allowed.err # "none" THEN SinkOut(s, h, f, allowed.pm, allowed.err)
        ELSE IF Truthy(s.error) THEN SinkOut(s, h, f, allowed.pm, "TypeError")
        ELSE flushing(allowed, flush(h, f))
  IN IF ~sinkEnsureNotClosed(s) THEN SinkOut(s, h, f, pm, "TypeError")
     ELSE closing(ensureHasWritePermission(s, f, pm, initial))

sinkAbort(s, h, f, pm, reason) ==
  SinkOut([s EXCEPT !.error = reason], close(h, f).h, f, pm, "none")


\* ------------------------------------------------------------------ state
FS == [registry |-> registry, disk |-> disk, objs |-> objs, diskSize |-> diskSize]

DiskSizes == (0..MaxDisk) \cup {Infinity}
Descriptors == 1..Len(objs)
FileDescriptors == {d \in Descriptors : objs[d].type = "file"}
Handles == 1..Len(handles)
AtOptions == {{}} \cup {{n} : n \in (-1)..MaxBuf}

Idle == [phase |-> "idle", path |-> Root, mode |-> "read", resolver |-> "none"]

\* new FileSystem(), new PermissionsManager(fileSystem, permissionsProvider)
Init ==
  /\ registry = FileSystemNew(Infinity).registry
  /\ disk = FileSystemNew(Infinity).disk
  /\ objs = FileSystemNew(Infinity).objs
  /\ diskSize = FileSystemNew(Infinity).diskSize
  /\ copies = {}
  /\ handles = <<>>
  /\ permissions = NoPermissions
  /\ promptPermissionProvider = FALSE
  /\ requests = [i \in 1..MaxRequests |-> Idle]
  /\ sinks = <<>>

\* The state after a FileSystem call with outcome r
FsCall(r) ==
  /\ Len(r.fs.objs) <= MaxObjs
  /\ registry' = r.fs.registry
  /\ disk' = r.fs.disk
  /\ objs' = r.fs.objs
  /\ diskSize' = r.fs.diskSize
  /\ UNCHANGED <<copies, handles>>
  /\ UNCHANGED permVars
  /\ UNCHANGED sinks

\* The state after a call on handle i with outcome r
HandleCall(i, r) ==
  /\ Len(r.h.tempFile) <= MaxBuf
  /\ registry' = r.fs.registry
  /\ disk' = r.fs.disk
  /\ objs' = r.fs.objs
  /\ diskSize' = r.fs.diskSize
  /\ handles' = [handles EXCEPT ![i] = r.h]
  /\ UNCHANGED copies
  /\ UNCHANGED permVars
  /\ UNCHANGED sinks

\* ------------------------------------------------------ FileSystem actions
MakeDirectory ==
  \E path \in Paths, recursive \in BOOLEAN :
    FsCall(makeDirectory(FS, path, recursive))

GetDirectoryDescriptor ==
  \E path \in Paths, create \in BOOLEAN :
    FsCall(getDirectoryDescriptor(FS, path, create))

CreateFile ==
  \E path \in Paths, size \in 0..MaxLen : FsCall(createFile(FS, path, size))

GetFileDescriptor ==
  \E path \in Paths, create \in BOOLEAN :
    FsCall(getFileDescriptor(FS, path, create))

ReadFile == \E d \in FileDescriptors : FsCall(readFile(FS, d))

WriteFile ==
  \E d \in FileDescriptors, data \in Buffers(MaxLen) :
    FsCall(writeFile(FS, d, data))

Remove ==
  \E path \in Paths, recursive \in BOOLEAN : FsCall(remove(FS, path, recursive))

SetTotalDiskSpace == \E size \in DiskSizes : FsCall(setTotalDiskSpace(FS, size))

Purge == FsCall(purge(FS))

\* A caller makes a structural copy {...descriptor} of a descriptor it holds
CopyDescriptor ==
  \E d \in Descriptors :
    /\ Len(objs) < MaxObjs
    /\ objs' = Append(objs, objs[d])
    /\ copies' = copies \cup {Len(objs) + 1}
    /\ UNCHANGED <<registry, disk, diskSize, handles>>
    /\ UNCHANGED permVars
    /\ UNCHANGED sinks

\* ------------------------------------------------ SyncAccessHandle actions
HandleCreate ==
  \E d \in FileDescriptors, keepContent \in BOOLEAN :
    LET r == SyncAccessHandleNew(FS, d, keepContent)
    IN /\ Len(handles) < MaxHandles
       /\ handles' = IF r.err = "none" THEN Append(handles, r.h) ELSE handles
       /\ UNCHANGED <<registry, disk, objs, diskSize, copies>>
       /\ UNCHANGED permVars
       /\ UNCHANGED sinks

HandleClose == \E i \in Handles : HandleCall(i, close(handles[i], FS))

HandleFlush == \E i \in Handles : HandleCall(i, flush(handles[i], FS))

HandleGetSize == \E i \in Handles : HandleCall(i, getSize(handles[i], FS))

HandleRead ==
  \E i \in Handles, n \in 0..MaxLen, options \in AtOptions :
    HandleCall(i, read(handles[i], FS, n, options))

HandleTruncate ==
  \E i \in Handles, n \in (-1)..MaxBuf :
    HandleCall(i, truncate(handles[i], FS, n))

HandleWrite ==
  \E i \in Handles, buffer \in Buffers(MaxLen), options \in AtOptions :
    HandleCall(i, write(handles[i], FS, buffer, options))

\* ---------------------------------------------- PermissionsManager actions
\* The paths whose Permission a call on path may have to create
Chain(path) == {q \in Paths : IsPrefix(q, path)}

\* What PermissionsProvider.initial may answer during a call that reaches
\* the given paths: any literal for each Permission still to be created.
InitialChoices(paths) ==
  LET fresh == {q \in paths : permissions[q] = NoPermission}
  IN {[q \in Paths |-> IF q \in fresh THEN g[q]
                       ELSE [read |-> "prompt", readwrite |-> "prompt"]] :
        g \in [fresh -> Literals]}

ModeArguments == Modes \cup {"write"}

StatusCountOf(pm) ==
  Cardinality({<<q, m, i>> \in Paths \X Modes \X
                 (1..(2 * Cardinality(Paths) + MaxSinkStatuses)) :
                 /\ i <= Len(pm[q].subscribers[m])
                 /\ pm[q].subscribers[m][i].kind = "status"})

StatusCount == StatusCountOf(permissions)

PermCall(r) ==
  /\ permissions' = r.pm
  /\ UNCHANGED <<promptPermissionProvider, requests>>
  /\ UNCHANGED <<registry, disk, objs, diskSize, copies, handles, sinks>>

GetStatus ==
  \E path \in Paths, mode \in ModeArguments :
    \E initial \in InitialChoices(Chain(path)) :
      LET r == getStatus(permissions, FS, path, mode, initial)
      IN /\ r.err = "none" => StatusCount < MaxStatuses
         /\ PermCall(r)

GetState ==
  \E path \in Paths, mode \in ModeArguments :
    \E initial \in InitialChoices(Chain(path)) :
      PermCall(getState(permissions, FS, path, mode, initial))

SetState ==
  \E path \in Paths, mode \in ModeArguments, state \in States :
    \E initial \in InitialChoices(Chain(path)) :
      PermCall(setState(permissions, FS, path, mode, state, initial))

Duplicate ==
  \E from \in Paths, to \in Paths :
    \E initial \in InitialChoices(Chain(from) \cup Chain(to)) :
      PermCall(duplicate(permissions, FS, from, to, initial))

SetPromptPermissionProvider ==
  \E provider \in BOOLEAN :
    /\ promptPermissionProvider' = provider
    /\ UNCHANGED <<permissions, requests>>
    /\ UNCHANGED <<registry, disk, objs, diskSize, copies, handles, sinks>>

\* requestPermission from the call to its await (or to its return, when the
\* state is not "prompt" or the call is rejected)
RequestPermission ==
  \E i \in DOMAIN requests, path \in Paths, mode \in ModeArguments :
    \E initial \in InitialChoices(Chain(path)) :
      LET r == requestPermission(permissions, FS, promptPermissionProvider,
                                 path, mode, initial)
      IN /\ requests[i].phase = "idle"
         /\ permissions' = r.pm
         /\ requests' = IF r.ret = "pending"
                        THEN [requests EXCEPT ![i] =
                                [phase |-> "pending", path |-> path,
                                 mode |-> mode, resolver |-> r.resolver]]
                        ELSE requests
         /\ UNCHANGED promptPermissionProvider
         /\ UNCHANGED <<registry, disk, objs, diskSize, copies, handles, sinks>>

\* The resolver of request i answers and requestPermission resumes
ResolvePermission ==
  \E i \in DOMAIN requests, state \in ResolvedStates :
    /\ requests[i].phase = "pending"
    /\ permissions' = requestPermissionResume(permissions, requests[i].path,
                                              requests[i].mode, state).pm
    /\ requests' = [requests EXCEPT ![i] = Idle]
    /\ UNCHANGED promptPermissionProvider
    /\ UNCHANGED <<registry, disk, objs, diskSize, copies, handles, sinks>>

\* ------------------------------------------ overlapping requestPermission
\* A PermissionsManager on which MaxOverlap requestPermission calls can be
\* in flight at once
OverlapInit ==
  /\ registry = FileSystemNew(Infinity).registry
  /\ disk = FileSystemNew(Infinity).disk
  /\ objs = FileSystemNew(Infinity).objs
  /\ diskSize = FileSystemNew(Infinity).diskSize
  /\ copies = {}
  /\ handles = <<>>
  /\ permissions = NoPermissions
  /\ promptPermissionProvider = FALSE
  /\ requests = [i \in 1..MaxOverlap |-> Idle]
  /\ sinks = <<>>

OverlapNext ==
  \/ SetPromptPermissionProvider \/ RequestPermission \/ ResolvePermission

OverlapSpec == OverlapInit /\ [][OverlapNext]_vars

\* ------------------------------------------------ DirectoryHandle actions
DirectoryDescriptors == {d \in Descriptors : objs[d].type = "dir"}

\* getFileHandle or getDirectoryHandle of the DirectoryHandle of d is called
\* and runs to the await in prepareHandlePath; call i then holds what the
\* continuation needs.
DirectoryHandleGet ==
  \E i \in 1..MaxRequests, d \in DirectoryDescriptors, child \in Paths :
    \E create \in BOOLEAN, isFileHandle \in BOOLEAN :
      \E initial \in InitialChoices(Chain(child)) :
        LET awaiting(r) ==
              /\ permissions' = r.pm
              /\ requests' = IF r.err = "none"
                             THEN [requests EXCEPT ![i] =
                                     [phase |-> "handle", path |-> objs[d].fullPath,
                                      mode |-> IF create THEN "readwrite" ELSE "read",
                                      resolver |-> r.resolver, state |-> r.ret,
                                      descriptor |-> d, child |-> child,
                                      create |-> create,
                                      isFileHandle |-> isFileHandle,
                                      removeEntry |-> {}]]
                             ELSE requests
        IN /\ dirname(child) = objs[d].fullPath
           /\ requests[i].phase = "idle"
           /\ awaiting(prepareHandlePath(permissions, FS, promptPermissionProvider,
                                         d, create, initial))
           /\ UNCHANGED promptPermissionProvider
           /\ UNCHANGED <<registry, disk, objs, diskSize, copies, handles, sinks>>

\* removeEntry of the DirectoryHandle of d is called and runs to the await
\* in ensurePermissionGranted("readwrite", true)
DirectoryHandleRemoveEntry ==
  \E i \in 1..MaxRequests, d \in DirectoryDescriptors, child \in Paths :
    \E recursive \in BOOLEAN :
      \E initial \in InitialChoices(Chain(child)) :
        LET awaiting(r) ==
              /\ permissions' = r.pm
              /\ requests' = IF r.err = "none"
                             THEN [requests EXCEPT ![i] =
                                     [phase |-> "handle", path |-> objs[d].fullPath,
                                      mode |-> "readwrite",
                                      resolver |-> r.resolver, state |-> r.ret,
                                      descriptor |-> d, child |-> child,
                                      create |-> FALSE, isFileHandle |-> FALSE,
                                      removeEntry |-> {recursive}]]
                             ELSE requests
        IN /\ dirname(child) = objs[d].fullPath
           /\ requests[i].phase = "idle"
           /\ awaiting(prepareHandlePath(permissions, FS, promptPermissionProvider,
                                         d, TRUE, initial))
           /\ UNCHANGED promptPermissionProvider
           /\ UNCHANGED <<registry, disk, objs, diskSize, copies, handles, sinks>>

\* What the await of the permission state of call q gives, answer being
\* what the resolver answers if one was invoked
AwaitedPermission(q, answer) ==
  IF q.state = "pending"
  THEN requestPermissionResume(permissions, q.path, q.mode, answer)
  ELSE POk(permissions, q.state)

\* The await of call i in requestPermission or queryPermission ends:
\* requestPermission stores the state the resolver answered
DirectoryHandlePermission ==
  \E i \in 1..MaxRequests, answer \in ResolvedStates :
    /\ requests[i].phase = "handle"
    /\ LET stored(awaited) ==
             /\ permissions' = awaited.pm
             /\ requests' = [requests EXCEPT ![i].phase = "permitted",
                                             ![i].state = awaited.ret]
       IN stored(AwaitedPermission(requests[i], answer))
    /\ UNCHANGED promptPermissionProvider
    /\ UNCHANGED <<registry, disk, objs, diskSize, copies, handles, sinks>>

\* ensurePermissionGranted and prepareHandlePath of call i resume, in a
\* later turn: the call is rejected, or prepareHandlePath returns the path
DirectoryHandleCheck ==
  \E i \in 1..MaxRequests :
    /\ requests[i].phase = "permitted"
    /\ requests[i].removeEntry = {}
    /\ requests' =
         IF prepareHandlePathResume(FS, requests[i].child, requests[i].create,
                                    requests[i].isFileHandle,
                                    requests[i].state) = "none"
         THEN [requests EXCEPT ![i].phase = "prepared"]
         ELSE [requests EXCEPT ![i] = Idle]
    /\ UNCHANGED <<permissions, promptPermissionProvider>>
    /\ UNCHANGED <<registry, disk, objs, diskSize, copies, handles, sinks>>

\* getFileHandle or getDirectoryHandle of call i resumes after
\* `await this.prepareHandlePath`, in a later turn again
DirectoryHandleResume ==
  \E i \in 1..MaxRequests :
    /\ requests[i].phase = "prepared"
    /\ \E initial \in InitialChoices(Chain(requests[i].child)) :
         LET settled(r) ==
               /\ Len(r.fs.objs) <= MaxObjs
               /\ registry' = r.fs.registry
               /\ disk' = r.fs.disk
               /\ objs' = r.fs.objs
               /\ diskSize' = r.fs.diskSize
               /\ permissions' = r.pm
         IN settled(getHandle(permissions, FS, requests[i].descriptor,
                              requests[i].child, requests[i].create,
                              requests[i].isFileHandle, initial))
    /\ requests' = [requests EXCEPT ![i] = Idle]
    /\ UNCHANGED <<copies, handles, sinks, promptPermissionProvider>>

\* removeEntry of call i resumes after `await this.ensurePermissionGranted`
DirectoryHandleRemoveEntryResume ==
  \E i \in 1..MaxRequests :
    /\ requests[i].phase = "permitted"
    /\ \E recursive \in requests[i].removeEntry :
         LET settled(r) ==
               /\ registry' = r.fs.registry
               /\ disk' = r.fs.disk
               /\ objs' = r.fs.objs
               /\ diskSize' = r.fs.diskSize
         IN settled(removeEntryResume(FS, requests[i].child, recursive,
                                      requests[i].state))
    /\ requests' = [requests EXCEPT ![i] = Idle]
    /\ UNCHANGED <<copies, handles, sinks, permissions,
                   promptPermissionProvider>>

DirectoryHandleNext ==
  \/ GetDirectoryDescriptor \/ Remove
  \/ DirectoryHandleGet \/ DirectoryHandleRemoveEntry
  \/ DirectoryHandlePermission \/ DirectoryHandleCheck
  \/ DirectoryHandleResume \/ DirectoryHandleRemoveEntryResume

\* DirectoryHandles over a FileSystem whose entries are removed while their
\* calls await
DirectoryHandleSpec == Init /\ [][DirectoryHandleNext]_vars

\* ------------------------------------------------ Permission subscribers
\* Spies subscribed to and unsubscribed from the Permission objects the
\* PermissionsManager has created, and set() called on those objects.
Spies == 1..MaxSpies

SpyCount ==
  Cardinality({<<q, m, i>> \in Paths \X Modes \X (1..MaxSubscriptions) :
                 /\ i <= Len(permissions[q].subscribers[m])
                 /\ permissions[q].subscribers[m][i].kind = "spy"})

\* spy.mockClear() on every spy
clearMocks(pm) == [q \in DOMAIN pm |-> [pm[q] EXCEPT !.calls = <<>>]]

Subscribe ==
  \E p \in Paths, mode \in Modes, id \in Spies :
    /\ permissions[p] # NoPermission
    /\ SpyCount < MaxSubscriptions
    /\ PermCall([pm |-> subscribe(permissions, p, mode, SpyCallback(p, id))])

Unsubscribe ==
  \E p \in Paths, mode \in Modes, id \in Spies :
    /\ permissions[p] # NoPermission
    /\ PermCall([pm |-> unsubscribe(permissions, p, mode, SpyCallback(p, id))])

\* permission.set(mode, state); the spies keep the calls they received,
\* while their journals have room
PermissionSet ==
  \E p \in Paths, mode \in Modes, state \in States :
    /\ permissions[p] # NoPermission
    /\ LET journalled(pm) ==
             /\ \A q \in Paths : Len(pm[q].calls) <= MaxCalls
             /\ PermCall([pm |-> pm])
       IN journalled(set(permissions, p, mode, state))

\* clearMocks() of the unit test, called between sets
ClearMocks ==
  /\ \E q \in Paths : permissions[q].calls # <<>>
  /\ PermCall([pm |-> clearMocks(permissions)])

SubscriberNext ==
  \/ GetState \/ Subscribe \/ Unsubscribe \/ PermissionSet \/ ClearMocks

\* The Permission of the root of an empty FileSystem, which has no parent
\* to follow, with the spies of the unit tests as its subscribers
SubscriberSpec == Init /\ [][SubscriberNext]_vars

\* ------------------------------------------ WritableFileStreamSink actions
Sinks == 1..Len(sinks)

\* The state after a call on sink i with outcome r
SinkCall(i, r, awaited) ==
  /\ StatusCountOf(r.pm) <= MaxSinkStatuses
  /\ Len(r.h.tempFile) <= MaxBuf
  /\ sinks' = [sinks EXCEPT ![i] = r.s]
  /\ handles' = [handles EXCEPT ![sinks[i].syncAccessHandle] = r.h]
  /\ registry' = r.fs.registry
  /\ disk' = r.fs.disk
  /\ objs' = r.fs.objs
  /\ diskSize' = r.fs.diskSize
  /\ permissions' = r.pm
  /\ requests' = awaited
  /\ UNCHANGED <<copies, promptPermissionProvider>>

\* WritableFileStreamSinkFactory.create(descriptor, keepContent)
SinkCreate ==
  \E d \in FileDescriptors, keepContent \in BOOLEAN :
    LET r == SyncAccessHandleNew(FS, d, keepContent)
    IN /\ Len(sinks) < MaxSinks
       /\ Len(handles) < MaxHandles
       /\ r.err = "none"
       /\ handles' = Append(handles, r.h)
       /\ sinks' = Append(sinks, WritableFileStreamSinkNew(Len(handles) + 1,
                                                           r.h, d))
       /\ UNCHANGED <<registry, disk, objs, diskSize, copies>>
       /\ UNCHANGED permVars

\* The PermissionsManager of the sinks is constructed with a
\* DefaultPermissionsProvider, whose initial() answers the same literal for
\* every path.
DefaultInitial == [q \in Paths |-> [read |-> "prompt", readwrite |-> "prompt"]]

\* write(chunk) is called on sink i.  A call that reaches doWrite stops at
\* the await in it, and call k then holds the buffer and the position of
\* the continuation; any other call settles at once.
SinkWrite ==
  \E i \in Sinks, chunk \in Chunks, k \in DOMAIN requests :
    LET begun(start) ==
          IF start.awaits = {}
          THEN SinkCall(i, sinkWrite(sinks[i],
                                     handles[sinks[i].syncAccessHandle], FS,
                                     permissions, chunk, DefaultInitial),
                        requests)
          ELSE /\ requests[k].phase = "idle"
               /\ StatusCountOf(start.pm) <= MaxSinkStatuses
               /\ permissions' = start.pm
               /\ requests' =
                    [requests EXCEPT ![k] =
                       [phase |-> "write", path |-> Root, mode |-> "readwrite",
                        resolver |-> "none", sink |-> i,
                        doWrite |-> CHOOSE w \in start.awaits : TRUE]]
               /\ UNCHANGED promptPermissionProvider
               /\ UNCHANGED <<registry, disk, objs, diskSize, copies, handles,
                              sinks>>
    IN begun(sinkWriteStart(sinks[i], FS, permissions, chunk, DefaultInitial))

\* The await in the doWrite of call k ends: the rest of doWrite runs on the
\* sink as it is by then.  Its error rejects the promise write returned.
SinkWriteResume ==
  \E k \in DOMAIN requests :
    /\ requests[k].phase = "write"
    /\ SinkCall(requests[k].sink,
                doWrite(sinks[requests[k].sink],
                        handles[sinks[requests[k].sink].syncAccessHandle], FS,
                        permissions, requests[k].doWrite.buffer,
                        requests[k].doWrite.position),
                [requests EXCEPT ![k] = Idle])

SinkClose ==
  \E i \in Sinks :
    SinkCall(i, sinkClose(sinks[i], handles[sinks[i].syncAccessHandle], FS,
                          permissions, DefaultInitial), requests)

\* permissionsManager.setState(descriptor.fullPath, "readwrite", state) on
\* the path of a sink's file
SetSinkPathState ==
  \E i \in Sinks, state \in States :
    PermCall(setState(permissions, FS, objs[sinks[i].descriptor].fullPath,
                      "readwrite", state, DefaultInitial))

SinkAbort ==
  \E i \in Sinks, reason \in Reasons :
    SinkCall(i, sinkAbort(sinks[i], handles[sinks[i].syncAccessHandle], FS,
                          permissions, reason), requests)

\* --------------------------------------------------------- specifications
FsNext ==
  \/ MakeDirectory \/ GetDirectoryDescriptor \/ CreateFile
  \/ GetFileDescriptor \/ ReadFile \/ WriteFile \/ Remove
  \/ SetTotalDiskSpace \/ Purge \/ CopyDescriptor

HandleNext ==
  \/ HandleCreate \/ HandleClose \/ HandleFlush \/ HandleGetSize
  \/ HandleRead \/ HandleTruncate \/ HandleWrite

PermNext ==
  \/ GetDirectoryDescriptor
  \/ GetStatus \/ GetState \/ SetState \/ Duplicate

RequestNext ==
  \/ GetDirectoryDescriptor \/ SetState
  \/ SetPromptPermissionProvider \/ RequestPermission \/ ResolvePermission

Next == FsNext \/ HandleNext

\* The FileSystem with its SyncAccessHandles
Spec == Init /\ [][Next]_vars

\* The PermissionsManager over a FileSystem.  Its root Permission is a
\* Permission constructed with any two states and driven through set(),
\* setRead() and setReadwrite() with no parent above it.
PermSpec == Init /\ [][PermNext]_vars

\* requestPermission calls in flight, interleaved with setState
RequestSpec == Init /\ [][RequestNext]_vars

\* ------------------------------------------ FileSystem actions on a tree
\* The state after a FileSystem call with outcome r, the registry holding
\* entries three levels deep
TreeCall(r) ==
  /\ Len(r.fs.objs) <= MaxTreeObjs
  /\ registry' = r.fs.registry
  /\ disk' = r.fs.disk
  /\ objs' = r.fs.objs
  /\ diskSize' = r.fs.diskSize
  /\ UNCHANGED <<copies, handles, sinks>>
  /\ UNCHANGED permVars

TreeMakeDirectory ==
  \E path \in TreePaths, recursive \in BOOLEAN :
    TreeCall(makeDirectory(FS, path, recursive))

TreeCreateFile == \E path \in TreePaths : TreeCall(createFile(FS, path, 0))

TreeRemove ==
  \E path \in TreePaths, recursive \in BOOLEAN :
    TreeCall(remove(FS, path, recursive))

TreeNext == TreeMakeDirectory \/ TreeCreateFile \/ TreeRemove

TreeSpec == Init /\ [][TreeNext]_vars

SinkNext ==
  \/ CreateFile \/ SetTotalDiskSpace \/ SetSinkPathState
  \/ SinkCreate \/ SinkWrite \/ SinkWriteResume \/ SinkClose \/ SinkAbort

\* A WritableFileStreamSink over its own SyncAccessHandle, with the disk
\* size and the permission states changing between its calls
SinkSpec == Init /\ [][SinkNext]_vars


\* ================================================================= claims
A == <<"a">>
AB == <<"a", "b">>

Created(q) == permissions[q] # NoPermission

\* C1: on a finite disk the used space, the sum of the lengths of all stored
\* file contents, never exceeds the total disk space.
UsedWithinTotal ==
  IsFinite(diskSize) => getUsedDiskSpace(FS) <= getTotalDiskSpace(FS)

\* C1 witness: a finite disk filled to the last byte by two stored files.
DiskFull ==
  /\ IsFinite(diskSize)
  /\ diskSize > 0
  /\ getUsedDiskSpace(FS) = diskSize
  /\ Cardinality(DOMAIN disk) >= 2

\* C2: a rejected createFile leaves the registry and the content store as
\* they were, whatever the path and the size.
RejectedCreateFileChangesNothing ==
  \A path \in Paths, size \in 0..MaxLen :
    LET r == createFile(FS, path, size)
    IN r.err # "none" => r.fs.registry = registry /\ r.fs.disk = disk

\* C3: a descriptor is valid exactly when it is the object the registry
\* holds, which is then registered under its own fullPath; a structural
\* copy is never valid; a descriptor that is not valid never becomes valid
\* again, whatever is created at its path later.
DescriptorIdentity ==
  /\ [](\A d \in Descriptors :
          /\ isValidDescriptor(FS, d) <=> (\E p \in Paths : registry[p] = d)
          /\ d \in copies => ~isValidDescriptor(FS, d))
  /\ [][\A d \in Descriptors :
          ~isValidDescriptor(FS, d) => ~isValidDescriptor(FS', d)]_vars

\* C3 witness: a descriptor that was registered, was removed, and whose path
\* holds a new entry.
StaleDescriptorPathReused ==
  \E d \in Descriptors \ copies :
    /\ ~isValidDescriptor(FS, d)
    /\ registry[objs[d].fullPath] # 0

Stale(d) == d \in copies \/ ~isValidDescriptor(FS, d)

\* C4 as claimed: readFile, writeFile and flush with a file descriptor that
\* is a structural copy or a removed entry fail with not-found and change
\* nothing.
StaleDescriptorNotFound ==
  \A d \in FileDescriptors :
    Stale(d) =>
      /\ readFile(FS, d) = Throw(FS, "NotFoundError")
      /\ \A data \in Buffers(MaxLen) :
           writeFile(FS, d, data) = Throw(FS, "NotFoundError")
      /\ \A i \in Handles :
           handles[i].fileDescriptor = d =>
             flush(handles[i], FS) = HThrow(handles[i], FS, "NotFoundError")

\* C4 amended: the same, for the flush of a handle that is still open.
StaleDescriptorNotFoundWhileOpen ==
  \A d \in FileDescriptors :
    Stale(d) =>
      /\ readFile(FS, d) = Throw(FS, "NotFoundError")
      /\ \A data \in Buffers(MaxLen) :
           writeFile(FS, d, data) = Throw(FS, "NotFoundError")
      /\ \A i \in Handles :
           handles[i].fileDescriptor = d /\ handles[i].state = "open" =>
             flush(handles[i], FS) = HThrow(handles[i], FS, "NotFoundError")

\* C4 witness: an open handle on a removed file entry whose path has been
\* created again.
OpenHandleOnStaleDescriptor ==
  \E i \in Handles :
    /\ handles[i].state = "open"
    /\ handles[i].fileDescriptor \notin copies
    /\ ~isValidDescriptor(FS, handles[i].fileDescriptor)
    /\ isFile(FS, objs[handles[i].fileDescriptor].fullPath)

\* C5: for every Permission on which setRead or setReadwrite was called,
\* directly or by the cascade, readwrite granted implies read granted.
CouplingGranted ==
  \A p \in Paths :
    permissions[p].touched =>
      (permissions[p].readwrite = "granted" => permissions[p].read = "granted")

\* C5 witness: a root Permission still holding the literal (prompt, granted)
\* it was constructed with, and a child of it, set by inheritance, with
\* readwrite granted.
GrantedChildOfIncoherentRoot ==
  /\ permissions[Root].read = "prompt"
  /\ permissions[Root].readwrite = "granted"
  /\ permissions[A].touched
  /\ permissions[A].readwrite = "granted"

\* C6 as claimed: for every Permission on which setRead or setReadwrite was
\* called, read not granted implies readwrite equal to read.
CouplingNotGranted ==
  \A p \in Paths :
    permissions[p].touched =>
      (permissions[p].read # "granted" =>
         permissions[p].readwrite = permissions[p].read)

\* C6 amended: setRead(s) with s not granted leaves read and readwrite both
\* equal to s; setReadwrite(s) with s not granted sets readwrite to s and
\* leaves read as it was, so a non-granted read may differ from readwrite.
SetReadForcesReadwrite ==
  \A p \in Paths, s \in {"prompt", "denied"} :
    Created(p) =>
      /\ getRead(setRead(permissions, p, s), p) = s
      /\ getReadwrite(setRead(permissions, p, s), p) = s
      /\ getRead(setReadwrite(permissions, p, s), p) = getRead(permissions, p)
      /\ getReadwrite(setReadwrite(permissions, p, s), p) = s

\* C6 witness: a Permission that was set, whose read is not granted and
\* whose readwrite differs from it.
ReadwriteBelowRead ==
  \E p \in Paths :
    /\ permissions[p].touched
    /\ permissions[p].read = "prompt"
    /\ permissions[p].readwrite = "denied"

\* C7: when setState(p, mode, s) changes the state of p for mode, every
\* Permission already created for a descendant of p has state s for mode
\* on return.
SetStateReachesDescendants ==
  \A p \in Paths, mode \in Modes, s \in States :
    (Created(p) /\ exists(FS, p) /\ get(permissions, p, mode) # s) =>
      LET r == setState(permissions, FS, p, mode, s, DefaultInitial)
      IN \A q \in Paths :
           (Created(q) /\ q # p /\ isSubPath(q, p)) => get(r.pm, q, mode) = s

\* C8: the first access to a non-root path creates its Permission
\* with read and readwrite equal to the parent's values at that moment,
\* whatever PermissionsProvider.initial answers.
FreshChildMirrorsParent ==
  \A path \in Paths \ {Root}, mode \in Modes :
    (exists(FS, path) /\ ~Created(path)) =>
      \A initial \in InitialChoices(Chain(path)) :
        LET pm == getState(permissions, FS, path, mode, initial).pm
        IN /\ getRead(pm, path) = getRead(pm, dirname(path))
           /\ getReadwrite(pm, path) = getReadwrite(pm, dirname(path))

\* C9: requestPermission invokes a resolver exactly when the state is
\* "prompt" at the call, the override callback when one is set and else
\* PermissionsProvider.prompt; when the state is not "prompt" it returns it
\* and changes no Permission; when the resolver answers, the answer is
\* returned, stored for (path, mode), and held by every already created
\* descendant.
RequestPermissionContract ==
  /\ \A path \in Paths, mode \in Modes :
       exists(FS, path) =>
         \A initial \in InitialChoices(Chain(path)) :
           LET r == requestPermission(permissions, FS, promptPermissionProvider,
                                      path, mode, initial)
               state == getState(permissions, FS, path, mode, initial).ret
           IN /\ r.resolver # "none" <=> state = "prompt"
              /\ r.resolver # "none" =>
                   r.resolver = IF promptPermissionProvider THEN "override"
                                ELSE "provider"
              /\ state # "prompt" =>
                   /\ r.ret = state
                   /\ \A q \in Paths :
                        Created(q) =>
                          /\ getRead(r.pm, q) = getRead(permissions, q)
                          /\ getReadwrite(r.pm, q) = getReadwrite(permissions, q)
  /\ \A i \in 1..MaxRequests, s \in ResolvedStates :
       requests[i].phase = "pending" =>
         LET r == requestPermissionResume(permissions, requests[i].path,
                                          requests[i].mode, s)
         IN /\ r.ret = s
            /\ get(r.pm, requests[i].path, requests[i].mode) = s
            /\ \A q \in Paths :
                 (Created(q) /\ q # requests[i].path
                    /\ isSubPath(q, requests[i].path)) =>
                   get(r.pm, q, requests[i].mode) = s

\* C10: read, write, truncate and close on a SyncAccessHandle leave the
\* FileSystem (registry, stored contents, descriptor sizes, disk size) as it
\* was; only flush persists the buffer.
OnlyFlushPersists ==
  \A i \in Handles :
    /\ close(handles[i], FS).fs = FS
    /\ \A n \in (-1)..MaxBuf : truncate(handles[i], FS, n).fs = FS
    /\ \A options \in AtOptions :
         /\ \A n \in 0..MaxLen : read(handles[i], FS, n, options).fs = FS
         /\ \A buffer \in Buffers(MaxLen) :
              write(handles[i], FS, buffer, options).fs = FS

\* C10 witness: a closed handle whose buffer differs from the non-empty
\* persisted content of its file.
ClosedWithUnflushedBuffer ==
  \E i \in Handles :
    /\ handles[i].state = "closed"
    /\ handles[i].fileDescriptor \in DOMAIN disk
    /\ Len(disk[handles[i].fileDescriptor]) > 0
    /\ handles[i].tempFile # disk[handles[i].fileDescriptor]
    /\ Len(handles[i].tempFile) > 0

\* C11: a successful flush leaves readFile(entry) equal to the handle's
\* buffer and entry.size equal to getSize(); a handle constructed with
\* keepContent = true and flushed before any write or truncate leaves the
\* persisted content as it was.
FlushPersistsBuffer ==
  /\ \A i \in Handles :
       LET h == handles[i]
           r == flush(h, FS)
       IN r.err = "none" =>
            /\ readFile(r.fs, h.fileDescriptor) = OkData(r.fs, h.tempFile)
            /\ r.fs.objs[h.fileDescriptor].size = getSize(h, FS).ret
  /\ \A d \in FileDescriptors :
       LET c == SyncAccessHandleNew(FS, d, TRUE)
       IN c.err = "none" =>
            \A n \in 0..MaxLen, options \in AtOptions :
              LET afterRead == read(c.h, FS, n, options).h
                  r == flush(afterRead, FS)
              IN r.err = "none" /\ r.fs.disk = disk

\* C11 witness: an open handle whose buffer, holding a non-zero byte, is
\* the persisted content of its file.
BufferIsPersistedContent ==
  \E i \in Handles :
    /\ handles[i].state = "open"
    /\ handles[i].fileDescriptor \in DOMAIN disk
    /\ disk[handles[i].fileDescriptor] = handles[i].tempFile
    /\ objs[handles[i].fileDescriptor].size = Len(handles[i].tempFile)
    /\ \E k \in 1..Len(handles[i].tempFile) : handles[i].tempFile[k] # 0

Max(x, y) == IF x > y THEN x ELSE y

\* C12: an accepted write of src at position p (the `at` option, or the
\* cursor without it) on a buffer of length n gives a buffer of length
\* max(n, p + len(src)) that keeps bytes [0, min(p, n)), has zeros in
\* [n, p), src in [p, p + len(src)) and keeps the bytes from p + len(src)
\* up to n; the call returns len(src).
WriteLayout ==
  \A i \in Handles, src \in Buffers(MaxLen), options \in AtOptions :
    LET h == handles[i]
        r == write(h, FS, src, options)
        n == Len(h.tempFile)
        p == OptionAt(options, h.cursor)
        out == r.h.tempFile
    IN r.err = "none" =>
         /\ r.ret = Len(src)
         /\ Len(out) = Max(n, p + Len(src))
         /\ \A k \in 1..Len(out) :
              out[k] = IF k <= Min(p, n) THEN h.tempFile[k]
                       ELSE IF k <= p THEN 0
                       ELSE IF k <= p + Len(src) THEN src[k - p]
                       ELSE h.tempFile[k]

\* C12 witness: an open handle whose two-byte buffer is a zero-filled gap
\* followed by a written byte, the cursor behind it.
WrittenBehindGap ==
  \E i \in Handles :
    /\ handles[i].state = "open"
    /\ handles[i].tempFile = <<0, 1>>
    /\ handles[i].cursor = 2

\* C13: an accepted truncate(k) on a buffer of length n gives a buffer of
\* length k that keeps bytes [0, min(k, n)) and has zeros in [n, k), and
\* sets the cursor to min(cursor, k); shrinking to k and growing again
\* leaves zeros beyond offset k.
TruncateLayout ==
  \A i \in Handles, k \in (-1)..MaxBuf :
    LET h == handles[i]
        r == truncate(h, FS, k)
        n == Len(h.tempFile)
        out == r.h.tempFile
    IN r.err = "none" =>
         /\ Len(out) = k
         /\ \A j \in 1..k : out[j] = IF j <= Min(k, n) THEN h.tempFile[j] ELSE 0
         /\ r.h.cursor = Min(h.cursor, k)
         /\ \A m \in k..MaxBuf :
              LET g == truncate(r.h, r.fs, m)
              IN (k <= n /\ g.err = "none") =>
                   \A j \in (k + 1)..m : g.h.tempFile[j] = 0

\* C13 witness: an open handle holding a non-zero byte followed by a zero,
\* with the cursor between them.
CursorInsideBuffer ==
  \E i \in Handles :
    /\ handles[i].state = "open"
    /\ handles[i].tempFile = <<1, 0>>
    /\ handles[i].cursor = 1

\* C14 as claimed: a write with an explicit `at` leaves the position at
\* which the next write without `at` starts where it was.
WriteAtKeepsCursor ==
  \A i \in Handles, src \in Buffers(MaxLen), p \in 0..MaxBuf :
    LET r == write(handles[i], FS, src, {p})
    IN r.err = "none" => r.h.cursor = handles[i].cursor

\* C14 amended: a write without `at` starts at the cursor, and every
\* accepted write, with or without `at`, leaves the cursor at the end of the
\* region it wrote, where the next write without `at` starts.
WriteMovesCursor ==
  \A i \in Handles, src \in Buffers(MaxLen), options \in AtOptions :
    LET h == handles[i]
        r == write(h, FS, src, options)
        p == OptionAt(options, h.cursor)
    IN r.err = "none" =>
         /\ r.h.cursor = p + Len(src)
         /\ options = {} => SubSeq(r.h.tempFile, h.cursor + 1, h.cursor + Len(src)) = src
         /\ \A next \in Buffers(MaxLen) :
              LET q == write(r.h, r.fs, next, {})
              IN q.err = "none" =>
                   SubSeq(q.h.tempFile, p + Len(src) + 1,
                          p + Len(src) + Len(next)) = next

\* C14 witness: an open handle with two bytes written and the cursor at
\* offset 1, before the end of the buffer.
CursorBeforeEnd ==
  \E i \in Handles :
    /\ handles[i].state = "open"
    /\ handles[i].tempFile = <<1, 1>>
    /\ handles[i].cursor = 1

\* C15: a read without `at` into a target of length m, on a buffer of length
\* n with cursor c <= n, copies k = min(m, n - c) bytes from offset c,
\* returns k and moves the cursor to c + k; a read that starts beyond n
\* returns 0 and sets the cursor to n; no read changes the buffer; the
\* cursor never exceeds n.
ReadLayout ==
  \A i \in Handles :
    LET h == handles[i]
        n == Len(h.tempFile)
        c == h.cursor
    IN /\ c <= n
       /\ h.state = "open" =>
            /\ \A m \in 0..MaxLen :
                 LET r == read(h, FS, m, {})
                     k == Min(m, n - c)
                 IN /\ r.err = "none"
                    /\ r.ret = k
                    /\ r.data = SubSeq(h.tempFile, c + 1, c + k)
                    /\ r.h.cursor = c + k
                    /\ r.h.tempFile = h.tempFile
                    /\ LET again == read(r.h, r.fs, m, {})
                       IN /\ again.data = SubSeq(h.tempFile, c + k + 1,
                                                 c + k + Min(m, n - c - k))
                          /\ (c + k = n => again.ret = 0)
            /\ \A m \in 0..MaxLen, p \in 0..(MaxBuf + 1) :
                 LET r == read(h, FS, m, {p})
                 IN /\ r.h.tempFile = h.tempFile
                    /\ p > n => (r.err = "none" /\ r.ret = 0 /\ r.h.cursor = n)

\* C15 witness: an open handle with the cursor one byte before the end of a
\* two-byte buffer whose bytes differ.
CursorBeforeLastByte ==
  \E i \in Handles :
    /\ handles[i].state = "open"
    /\ handles[i].tempFile = <<0, 1>>
    /\ handles[i].cursor = 1

\* C16: a closed handle stays closed; on it getSize, read, write, truncate
\* and flush fail with InvalidStateError and change neither the handle nor
\* the FileSystem, and close succeeds and changes nothing.
ClosedIsTerminal ==
  /\ [](\A i \in Handles :
          handles[i].state = "closed" =>
            LET h == handles[i]
                rejected == HThrow(h, FS, "InvalidStateError")
            IN /\ getSize(h, FS) = rejected
               /\ flush(h, FS) = rejected
               /\ \A n \in (-1)..MaxBuf : truncate(h, FS, n) = rejected
               /\ \A options \in AtOptions :
                    /\ \A n \in 0..MaxLen : read(h, FS, n, options) = rejected
                    /\ \A src \in Buffers(MaxLen) :
                         write(h, FS, src, options) = rejected
               /\ close(h, FS) = HOk(h, FS, 0))
  /\ [][\A i \in Handles :
          handles[i].state = "closed" => handles'[i] = handles[i]]_vars

\* C16 witness: a closed handle whose cursor had moved.
ClosedAfterUse ==
  \E i \in Handles :
    /\ handles[i].state = "closed"
    /\ handles[i].cursor > 0

SinkHandle(i) == handles[sinks[i].syncAccessHandle]
SinkPath(i) == objs[sinks[i].descriptor].fullPath
SinkReadwrite(i) ==
  getState(permissions, FS, SinkPath(i), "readwrite", DefaultInitial).ret
Usable(i) == ensureNotInErrorState(sinks[i]) /\ sinkEnsureNotClosed(sinks[i])
WriteOn(i, chunk) ==
  sinkWrite(sinks[i], SinkHandle(i), FS, permissions, chunk, DefaultInitial)
CloseOn(i) ==
  sinkClose(sinks[i], SinkHandle(i), FS, permissions, DefaultInitial)
AbortOn(i, reason) ==
  sinkAbort(sinks[i], SinkHandle(i), FS, permissions, reason)
WriteAfter(r, chunk) == sinkWrite(r.s, r.h, r.fs, r.pm, chunk, DefaultInitial)
CloseAfter(r) == sinkClose(r.s, r.h, r.fs, r.pm, DefaultInitial)
AbortAfter(r, reason) == sinkAbort(r.s, r.h, r.fs, r.pm, reason)
Seek0 ==
  [type |-> "seek", data |-> {}, position |-> NumberField(0),
   size |-> AbsentField]

\* C17: once a write call on a sink has failed while validating or
\* executing its command, every later write call fails with the same error
\* and leaves the handle and the file system as they were.
StickyWriteError ==
  \A i \in Sinks, chunk \in Chunks :
    LET first == WriteOn(i, chunk)
    IN (Usable(i) /\ SinkReadwrite(i) = "granted" /\ first.err # "none") =>
         \A next \in Chunks :
           LET second == WriteAfter(first, next)
           IN /\ second.err = first.err
              /\ second.h = first.h
              /\ second.fs = first.fs

\* C18 as claimed: a write call on a sink made while the readwrite state of
\* the file's path is not granted fails with NotAllowedError and leaves the
\* handle as it was.
WriteNeedsGrantedReadwrite ==
  \A i \in Sinks, chunk \in Chunks :
    SinkReadwrite(i) # "granted" =>
      /\ WriteOn(i, chunk).err = "NotAllowedError"
      /\ WriteOn(i, chunk).h = SinkHandle(i)

\* C18 amended: the same for a sink that is neither in error state nor
\* closed; the rejected call leaves the sink, its handle and the file system
\* as they were, and the state is read on every call: with readwrite granted
\* no write fails with NotAllowedError, and after a rejected write a seek
\* issued once readwrite is granted is executed.
UsableSinkWriteNeedsGrantedReadwrite ==
  \A i \in Sinks, chunk \in Chunks :
    Usable(i) =>
      LET r == WriteOn(i, chunk)
      IN IF SinkReadwrite(i) # "granted"
         THEN /\ r.err = "NotAllowedError"
              /\ r.h = SinkHandle(i)
              /\ r.s = sinks[i]
              /\ r.fs = FS
              /\ LET granted == setState(r.pm, r.fs, SinkPath(i), "readwrite",
                                         "granted", DefaultInitial).pm
                     again == sinkWrite(r.s, r.h, r.fs, granted, Seek0,
                                        DefaultInitial)
                 IN again.err = "none" /\ again.s.cursor = 0
         ELSE r.err # "NotAllowedError"

\* C18 witness: a sink that has written, neither closed nor in error state,
\* while readwrite on its file's path is denied.
WrittenSinkDenied ==
  \E i \in Sinks :
    /\ Usable(i)
    /\ Len(SinkHandle(i).tempFile) > 0
    /\ sinks[i].cursor > 0
    /\ Created(SinkPath(i))
    /\ permissions[SinkPath(i)].readwrite = "denied"

\* C19 as claimed: a successful close leaves the persisted content equal to
\* the buffer and the handle closed, and every later write or close call,
\* whatever was called on the sink in between, fails with TypeError and
\* changes nothing.
ClosedSinkRejectsWithTypeError ==
  \A i \in Sinks :
    LET c == CloseOn(i)
    IN c.err = "none" =>
         /\ readFile(c.fs, sinks[i].descriptor).data = SinkHandle(i).tempFile
         /\ c.h.state = "closed"
         /\ \A later \in {c} \cup {AbortAfter(c, reason) : reason \in Reasons} :
              /\ \A chunk \in Chunks :
                   WriteAfter(later, chunk) =
                     SinkOut(later.s, later.h, later.fs, later.pm, "TypeError")
              /\ CloseAfter(later) =
                   SinkOut(later.s, later.h, later.fs, later.pm, "TypeError")

\* C19 amended: a successful close leaves the persisted content equal to the
\* buffer and the handle closed; a closed sink stays closed; every later
\* close call fails with TypeError and every later write call fails with
\* TypeError, or with the reason of an abort called since with a truthy
\* reason; none of them changes anything.
ClosedSinkIsTerminal ==
  /\ [](\A i \in Sinks :
          LET c == CloseOn(i)
          IN c.err = "none" =>
               /\ readFile(c.fs, sinks[i].descriptor).data =
                    SinkHandle(i).tempFile
               /\ c.fs.objs[sinks[i].descriptor].size =
                    Len(SinkHandle(i).tempFile)
               /\ c.h.state = "closed"
               /\ c.s.isClosed
               /\ \A chunk \in Chunks :
                    WriteAfter(c, chunk) =
                      SinkOut(c.s, c.h, c.fs, c.pm, "TypeError")
               /\ CloseAfter(c) = SinkOut(c.s, c.h, c.fs, c.pm, "TypeError")
               /\ \A reason \in Reasons :
                    LET later == AbortAfter(c, reason)
                    IN /\ \A chunk \in Chunks :
                            WriteAfter(later, chunk) =
                              SinkOut(later.s, later.h, later.fs, later.pm,
                                      IF Truthy(reason) THEN reason
                                      ELSE "TypeError")
                       /\ CloseAfter(later) =
                            SinkOut(later.s, later.h, later.fs, later.pm,
                                    "TypeError"))
  /\ [][\A i \in Sinks : sinks[i].isClosed => sinks'[i].isClosed]_vars

\* C19 witness: a closed sink, not in error state, whose handle is closed
\* and whose non-empty buffer is the persisted content of its file.
SinkClosedAndPersisted ==
  \E i \in Sinks :
    /\ sinks[i].isClosed
    /\ ~Truthy(sinks[i].error)
    /\ SinkHandle(i).state = "closed"
    /\ Len(SinkHandle(i).tempFile) > 0
    /\ disk[sinks[i].descriptor] = SinkHandle(i).tempFile

\* C20: abort(reason) does not raise, closes the handle and leaves the file
\* system as it was; every later write call fails with reason, and no later
\* write or close call changes the persisted content.
AbortStoresReason ==
  \A i \in Sinks, reason \in Reasons :
    LET a == AbortOn(i, reason)
    IN /\ a.err = "none"
       /\ a.h.state = "closed"
       /\ a.h.tempFile = SinkHandle(i).tempFile
       /\ a.fs = FS
       /\ CloseAfter(a).fs = FS
       /\ \A chunk \in Chunks :
            /\ WriteAfter(a, chunk).err = reason
            /\ WriteAfter(a, chunk).fs = FS
            /\ CloseAfter(WriteAfter(a, chunk)).fs = FS

\* C21: whatever makes a write call on a sink fail, every write
\* call and close call after it fails with that same error.
WriteErrorRemembered ==
  \A i \in Sinks, chunk \in Chunks :
    LET first == WriteOn(i, chunk)
    IN first.err # "none" =>
         /\ \A next \in Chunks : WriteAfter(first, next).err = first.err
         /\ CloseAfter(first).err = first.err

\* The reference of C22: data written at start into buf, any gap between the
\* old end and start filled with zeros
RefWrite(buf, start, data) ==
  [k \in 1..Max(Len(buf), start + Len(data)) |->
     IF start < k /\ k <= start + Len(data) THEN data[k - start]
     ELSE IF k <= Len(buf) THEN buf[k] ELSE 0]

RefTruncate(buf, size) ==
  [k \in 1..size |-> IF k <= Len(buf) THEN buf[k] ELSE 0]

\* The outcome r of an accepted command on sink i is the reference's, the
\* command writing or seeking at position at, or truncating to size
MatchesReference(i, r, command, at, size) ==
  /\ r.fs = FS
  /\ r.s.fileSize = Len(r.h.tempFile)
  /\ IF command.type = "write"
     THEN /\ r.h.tempFile =
               RefWrite(SinkHandle(i).tempFile, at,
                        CHOOSE b \in command.data : TRUE)
          /\ r.s.cursor = at + Len(CHOOSE b \in command.data : TRUE)
     ELSE IF command.type = "seek"
     THEN /\ r.s = [sinks[i] EXCEPT !.cursor = at]
          /\ r.h = SinkHandle(i)
     ELSE /\ r.h.tempFile = RefTruncate(SinkHandle(i).tempFile, size)
          /\ r.s.cursor = Min(sinks[i].cursor, size)

\* C22: every command a sink accepts leaves the buffer and the sink cursor
\* as the reference says: a bare payload or a write without a position
\* (the property missing, undefined or null) writes at the cursor, a write
\* with position p at p, seek(p) sets the cursor to p and truncate(s) the
\* size to s, for every p and s that is a number and not negative.
SinkFollowsReference ==
  \A i \in Sinks, chunk \in Chunks :
    LET r == WriteOn(i, chunk)
        command == convertToWriteParams(chunk)
    IN (/\ r.err = "none"
        /\ NaNField \notin {command.position, command.size}
        /\ command.position.n >= 0
        /\ command.size.n >= 0) =>
         MatchesReference(i, r, command,
                          IF command.position.kind = "number"
                          THEN command.position.n ELSE sinks[i].cursor,
                          command.size.n)

\* C23: the content store holds a record for a descriptor exactly when the
\* descriptor is registered as a file entry, and no two paths share a
\* descriptor: one record for each registered file, none for directories,
\* removed entries or entries dropped by purge.
ContentStoreMatchesRegistry ==
  /\ DOMAIN disk = {registry[p] : p \in {q \in Paths : isFile(FS, q)}}
  /\ \A p, q \in Paths :
       (exists(FS, p) /\ exists(FS, q) /\ registry[p] = registry[q]) => p = q

\* C23 witness: a registered file with its record, next to a file descriptor
\* that was removed from the registry and has no record.
RecordOnlyForRegisteredFile ==
  \E d, e \in FileDescriptors \ copies :
    /\ ~isValidDescriptor(FS, d)
    /\ d \notin DOMAIN disk
    /\ isValidDescriptor(FS, e)
    /\ e \in DOMAIN disk

\* C24: the root path is registered as a directory in every reachable
\* state, and remove, makeDirectory and createFile called with the root
\* path fail, whatever their options, and leave the file system as it was.
RootAlwaysDirectory ==
  /\ isDirectory(FS, Root)
  /\ \A recursive \in BOOLEAN :
       /\ remove(FS, Root, recursive).err # "none"
       /\ remove(FS, Root, recursive).fs = FS
       /\ makeDirectory(FS, Root, recursive).err # "none"
       /\ makeDirectory(FS, Root, recursive).fs = FS
  /\ \A size \in 0..MaxLen :
       /\ createFile(FS, Root, size).err # "none"
       /\ createFile(FS, Root, size).fs = FS

\* C24 witness: after purge the root is a new directory entry, the only
\* entry of a registry that held others before.
RootAloneAfterPurge ==
  /\ Len(objs) >= 3
  /\ registry[Root] = Len(objs)
  /\ \A p \in Paths \ {Root} : ~exists(FS, p)

\* C25: after remove(path, {recursive: true}) on a directory returns,
\* neither path nor any path that was registered beneath it, at any depth,
\* is registered, and none of their content records is left; without
\* recursive, remove on a directory that has children fails with
\* InvalidModificationError and changes nothing.
RecursiveRemoveClearsSubtree ==
  \A path \in TreePaths \ {Root} :
    isDirectory(FS, path) =>
      /\ LET r == remove(FS, path, TRUE)
         IN r.err = "none" =>
              \A p \in TreePaths :
                (p = path \/ (exists(FS, p) /\ isSubPath(p, path))) =>
                  /\ ~exists(r.fs, p)
                  /\ registry[p] \notin DOMAIN r.fs.disk
      /\ getChildPaths(FS, path) # {} =>
           remove(FS, path, FALSE) = Throw(FS, "InvalidModificationError")

\* C26: makeDirectory fails when path exists, when its parent is absent and
\* recursive is not set, and when an ancestor of path is a file; a failed
\* call leaves the file system as it was; after a successful call path and
\* all its ancestors are registered as directories.
MakeDirectoryContract ==
  \A path \in TreePaths, recursive \in BOOLEAN :
    LET r == makeDirectory(FS, path, recursive)
        ancestors == {q \in TreePaths : IsPrefix(q, path) /\ q # path}
    IN /\ (\/ exists(FS, path)
           \/ ~exists(FS, dirname(path)) /\ ~recursive
           \/ \E q \in ancestors : isFile(FS, q)) => r.err # "none"
       /\ r.err # "none" => r.fs = FS
       /\ r.err = "none" =>
            \A q \in ancestors \cup {path} : isDirectory(r.fs, q)

\* C26 witness: the directories "a", "a/b" and "a/b/c" registered next to
\* the file "c".
DirectoryChainNextToFile ==
  /\ isDirectory(FS, <<"a">>)
  /\ isDirectory(FS, <<"a", "b">>)
  /\ isDirectory(FS, <<"a", "b", "c">>)
  /\ isFile(FS, <<"c">>)

\* C27: writeFile on a registered file entry is rejected exactly when the
\* length of data exceeds the free disk space plus the length stored for the
\* entry, and then changes nothing; otherwise data becomes the stored
\* content and its length the entry's size, nothing else changing; data no
\* longer than the stored content is always accepted.
WriteFileQuota ==
  \A d \in FileDescriptors \ copies, data \in Buffers(MaxBuf) :
    isValidDescriptor(FS, d) =>
      LET r == writeFile(FS, d, data)
          room == Plus(getFreeDiskSpace(FS), Len(disk[d]))
      IN /\ IF Less(room, Len(data))
            THEN r.err # "none" /\ r.fs = FS
            ELSE /\ r.err = "none"
                 /\ r.fs = [FS EXCEPT !.disk[d] = data,
                                      !.objs[d].size = Len(data)]
         /\ Len(data) <= Len(disk[d]) => r.err = "none"

\* C27 witness: a full finite disk holding a registered file with content.
FullDiskWithStoredFile ==
  /\ IsFinite(diskSize)
  /\ getFreeDiskSpace(FS) = 0
  /\ \E d \in FileDescriptors \ copies :
       isValidDescriptor(FS, d) /\ Len(disk[d]) > 0 /\ objs[d].size = Len(disk[d])


\* ---------------------------------------------------------------- C28
\* The calls of spy cb for a mode recorded on the Permission of q
CallsOf(pm, q, cb, mode) ==
  {k \in 1..Len(pm[q].calls) :
     pm[q].calls[k].callback = cb /\ pm[q].calls[k].mode = mode}

SpiesOn(pm, q, mode) ==
  {pm[q].subscribers[mode][k] : k \in 1..Len(pm[q].subscribers[mode])}
    \cap {SpyCallback(q, id) : id \in Spies}

\* What a set(m0, state) call on the Permission of p does to the spies of
\* the Permission of q
NotifiedOnChange(p, m0, state, q) ==
  LET before == clearMocks(permissions)
      after == set(before, p, m0, state)
  IN \A mode \in Modes : \A cb \in SpiesOn(before, q, mode) :
       /\ Cardinality(CallsOf(after, q, cb, mode)) =
            IF before[q][mode] # after[q][mode] THEN 1 ELSE 0
       /\ \A k \in CallsOf(after, q, cb, mode) :
            /\ after[q].calls[k].newState = after[q][mode]
            /\ after[q].calls[k][mode] = after[q][mode]

SilentOnceUnsubscribed(p, m0, state, q) ==
  \A mode \in Modes, id \in Spies :
    LET cb == SpyCallback(q, id)
        un == unsubscribe(clearMocks(permissions), q, mode, cb)
    IN CallsOf(set(un, p, m0, state), q, cb, mode) = {}

\* C28: in any setRead/setReadwrite call on a Permission, each current
\* subscriber of a mode is invoked exactly once with the new value if and
\* only if the stored value of the mode changed during the call, the stored
\* value is already the new one when the subscriber runs, and a callback
\* that has been unsubscribed is not invoked again.
SubscribersNotifiedOnce ==
  \A p \in Paths, q \in Paths, m0 \in Modes, state \in States :
    (permissions[p] # NoPermission /\ permissions[q] # NoPermission) =>
      /\ NotifiedOnChange(p, m0, state, q)
      /\ SilentOnceUnsubscribed(p, m0, state, q)


\* ---------------------------------------------------------------- C29
\* The Permission of to holds in after what the Permission of from holds in
\* before, and the Permission of from holds the same in both
CopiedAndKept(before, after, from, to) ==
  /\ after[to].read = before[from].read
  /\ after[to].readwrite = before[from].readwrite
  /\ after[from].read = before[from].read
  /\ after[from].readwrite = before[from].readwrite

\* The heap once duplicate has obtained its two Permissions
BothPermissions(from, to, initial) ==
  getPermission(getPermission(permissions, FS, from, initial).pm, FS, to,
                initial).pm

\* C29: after duplicate(from, to) the read and readwrite states of to are
\* the ones the Permission of from had before the call and those of from are
\* unchanged, for every pair of existing paths, one being an ancestor of the
\* other included.
DuplicateCopiesBothStates ==
  \A from \in Paths, to \in Paths :
    (exists(FS, from) /\ exists(FS, to)) =>
      \A initial \in InitialChoices(Chain(from) \cup Chain(to)) :
        CopiedAndKept(BothPermissions(from, to, initial),
                      duplicate(permissions, FS, from, to, initial).pm,
                      from, to)


\* ---------------------------------------------------------------- C30
\* The call with outcome r failed with a type error and left the
\* permissions as they are
RejectedUnchanged(r) == r.err = "TypeError" /\ r.pm = permissions

RejectedUnprompted(r) == RejectedUnchanged(r) /\ r.resolver = "none"

\* C30: getStatus, getState, setState and requestPermission fail with a type
\* error when mode is neither "read" nor "readwrite" or when path does not
\* exist in the FileSystem, and the failed call creates no Permission,
\* invokes no resolver and changes no permission state.
InvalidCallsRejected ==
  \A path \in Paths, mode \in ModeArguments :
    (mode \notin Modes \/ ~exists(FS, path)) =>
      \A initial \in InitialChoices(Chain(path)) :
        /\ RejectedUnchanged(getStatus(permissions, FS, path, mode, initial))
        /\ RejectedUnchanged(getState(permissions, FS, path, mode, initial))
        /\ \A state \in States :
             RejectedUnchanged(setState(permissions, FS, path, mode, state,
                                        initial))
        /\ RejectedUnprompted(requestPermission(permissions, FS,
                                                promptPermissionProvider,
                                                path, mode, initial))

\* A request awaits the overriding resolver, Permissions have been set,
\* and a call on the unregistered path "a" is rejected
RejectedWhileRequestPending ==
  /\ requests[1].phase = "pending"
  /\ promptPermissionProvider
  /\ permissions[Root].touched
  /\ ~exists(FS, A)
  /\ RejectedUnprompted(requestPermission(permissions, FS,
                                          promptPermissionProvider, A,
                                          "read", DefaultInitial))


\* ---------------------------------------------------------------- C31
\* The outcome [fs, pm, err] of the getFileHandle or getDirectoryHandle call
\* i from its await on, when nothing else runs before it settles
DirectoryHandleOutcome(i, answer, initial) ==
  LET q == requests[i]
      resumed(awaited) ==
        IF prepareHandlePathResume(FS, q.child, q.create, q.isFileHandle,
                                   awaited.ret) # "none"
        THEN [fs |-> FS, pm |-> awaited.pm,
              err |-> prepareHandlePathResume(FS, q.child, q.create,
                                              q.isFileHandle, awaited.ret)]
        ELSE getHandle(awaited.pm, FS, q.descriptor, q.child, q.create,
                       q.isFileHandle, initial)
  IN resumed(AwaitedPermission(q, answer))

\* C31: getFileHandle and getDirectoryHandle with create: true create an
\* entry only if the descriptor of the handle's own directory is still valid
\* at the moment of creation: if the directory has been removed, before the
\* call or while the call's permission request is pending, the call fails
\* with NotFoundError and the registry of the FileSystem is unchanged.
CreateNeedsLiveDirectory ==
  /\ \A d \in DirectoryDescriptors :
       ~isValidDescriptor(FS, d) =>
         \A initial \in InitialChoices(Chain(objs[d].fullPath)) :
           prepareHandlePath(permissions, FS, promptPermissionProvider, d,
                             TRUE, initial).err = "NotFoundError"
  /\ \A i \in 1..MaxRequests :
       (/\ requests[i].phase = "handle"
        /\ requests[i].create
        /\ ~isValidDescriptor(FS, requests[i].descriptor)) =>
         \A answer \in ResolvedStates :
           \A initial \in InitialChoices(Chain(requests[i].child)) :
             LET failed(r) == r.err = "NotFoundError" /\ r.fs.registry = registry
             IN failed(DirectoryHandleOutcome(i, answer, initial))


\* ---------------------------------------------------------------- C32
\* What the quota check of handle i allows: the free disk space plus the
\* size its descriptor holds now
QuotaRoom(i) ==
  Plus(getFreeDiskSpace(FS), objs[handles[i].fileDescriptor].size)

\* truncate and write on the open handle i are rejected with a quota error
\* exactly when the resulting buffer size exceeds QuotaRoom(i)
QuotaExact(i) ==
  /\ \A n \in 0..(MaxBuf + 1) :
       (truncate(handles[i], FS, n).err = "QuotaExceededError")
         <=> Less(QuotaRoom(i), n)
  /\ \A buffer \in Buffers(MaxLen), at \in 0..MaxBuf :
       (write(handles[i], FS, buffer, {at}).err = "QuotaExceededError")
         <=> Less(QuotaRoom(i), Max(Len(handles[i].tempFile), at + Len(buffer)))

\* C32 (as stated): write and truncate are rejected with a quota error
\* exactly when the resulting buffer size exceeds the free disk space plus
\* the persisted size of the file at the construction of the handle: the
\* offset of the check is the same after every step as before it, whoever
\* flushes or rewrites the file.
QuotaAgainstSizeAtConstruction ==
  [][\A i \in Handles :
       /\ handles[i].state = "open" => QuotaExact(i)
       /\ objs'[handles'[i].fileDescriptor].size =
            objs[handles[i].fileDescriptor].size]_vars

\* C32 (amended): the offset is the size the descriptor of the handle holds
\* at the time of the call, which every writeFile on that descriptor, the
\* flush of the handle included, sets to the length of what it stored.
QuotaAgainstDescriptorSize ==
  \A i \in Handles :
    /\ handles[i].state = "open" => QuotaExact(i)
    /\ isValidDescriptor(FS, handles[i].fileDescriptor) =>
         objs[handles[i].fileDescriptor].size =
           Len(disk[handles[i].fileDescriptor])

\* An open handle on a file with stored content on a full disk: a truncate
\* to the stored size is accepted although no space is free
QuotaCountsStoredSize ==
  \E i \in Handles :
    /\ handles[i].state = "open"
    /\ IsFinite(diskSize)
    /\ getFreeDiskSpace(FS) = 0
    /\ objs[handles[i].fileDescriptor].size > 0
    /\ handles[i].tempFile = <<>>
    /\ truncate(handles[i], FS, objs[handles[i].fileDescriptor].size).err = "none"


\* ---------------------------------------------------------------- C33
\* The call with outcome r on handle i, if it failed with a type error or
\* a quota error, left the handle as it was
FailedUnchanged(i, r) ==
  r.err \in {"TypeError", "QuotaExceededError"} => r.h = handles[i]

\* C33: a read, write or truncate call on a SyncAccessHandle that fails, for
\* a negative `at` or size (type error) or for exceeding the quota, leaves
\* the buffer content, the size and the cursor of the handle exactly as they
\* were, a write whose `at` lies beyond the end of the buffer included.
FailedHandleCallChangesNothing ==
  \A i \in Handles :
    /\ \A n \in 0..MaxLen, options \in AtOptions :
         FailedUnchanged(i, read(handles[i], FS, n, options))
    /\ \A n \in (-1)..(MaxBuf + 1) :
         FailedUnchanged(i, truncate(handles[i], FS, n))
    /\ \A buffer \in Buffers(MaxLen), options \in AtOptions :
         FailedUnchanged(i, write(handles[i], FS, buffer, options))


\* ---------------------------------------------------------------- C34
\* C34: if the close() of a sink fails, for missing permission, for the
\* error state of the sink or for a rejected flush (quota exceeded, file
\* entry removed), the sink is not marked closed and the state of its handle
\* is unchanged: no sink is closed with its handle still open.
FailedCloseLeavesSinkOpen ==
  \A i \in Sinks :
    LET unchanged(r) ==
          r.err # "none" =>
            /\ r.s.isClosed = sinks[i].isClosed
            /\ r.h = handles[sinks[i].syncAccessHandle]
    IN /\ unchanged(sinkClose(sinks[i], handles[sinks[i].syncAccessHandle],
                              FS, permissions, DefaultInitial))
       /\ sinks[i].isClosed => handles[sinks[i].syncAccessHandle].state = "closed"


\* ---------------------------------------------------------------- C35
\* What two calls in flight for (path, mode) return, and what is stored,
\* once the resolver of the first answered si and then that of the second sj
TwoResolved(path, mode, si, sj) ==
  LET second(first) ==
        LET last == requestPermissionResume(first.pm, path, mode, sj)
        IN [first |-> first.ret, second |-> last.ret,
            stored |-> get(last.pm, path, mode)]
  IN second(requestPermissionResume(permissions, path, mode, si))

\* C35: two overlapping requestPermission calls for the same (path, mode),
\* both started while the state is "prompt", whose resolvers complete in any
\* order with any results, return the same state, and that state is the one
\* stored for (path, mode) once both have completed.
OverlappingRequestsAgree ==
  \A i \in DOMAIN requests, j \in DOMAIN requests :
    (/\ i # j
     /\ requests[i].phase = "pending"
     /\ requests[j].phase = "pending"
     /\ requests[i].path = requests[j].path
     /\ requests[i].mode = requests[j].mode) =>
      \A si \in ResolvedStates, sj \in ResolvedStates :
        LET agree(r) == r.first = r.second /\ r.stored = r.first
        IN agree(TwoResolved(requests[i].path, requests[i].mode, si, sj))


\* ---------------------------------------------------------------- C36
\* The bare payloads of a write call: a BufferSource or string, converted at
\* once, or a Blob whose arrayBuffer() settles after 1..MaxSettle turns
Payloads ==
  {payload \in [blob : BOOLEAN, settles : 0..MaxSettle, buffer : Buffers(MaxLen)] :
     payload.blob <=> payload.settles > 0}

\* C36: two write calls issued on a sink without awaiting the first leave
\* the buffer and the cursor that running them one after the other in issue
\* order leaves: the second payload lands after the first.
UnawaitedWritesRunInOrder ==
  \A i \in Sinks, payload1 \in Payloads, payload2 \in Payloads :
    (Usable(i) /\ SinkReadwrite(i) = "granted") =>
      LET same(together, apart) ==
            /\ together.h.tempFile = apart.h.tempFile
            /\ together.s.cursor = apart.s.cursor
      IN same(sinkWriteUnawaited(sinks[i], SinkHandle(i), FS, permissions,
                                 payload1, payload2, DefaultInitial),
              WriteAfter(WriteOn(i, BareChunk(payload1.buffer)),
                         BareChunk(payload2.buffer)))


\* ---------------------------------------------------------------- C37
\* C37: in every reachable state of the FileSystem every registered path
\* other than the root has its parent path registered as a directory: no
\* entry is registered beneath a file or beneath an unregistered path.
EveryEntryInDirectory ==
  \A path \in TreePaths \ {Root} :
    exists(FS, path) => isDirectory(FS, dirname(path))


\* ---------------------------------------------------------------- C38
\* After the accepted call with outcome r on a handle, whatever createFile
\* or writeFile call comes next, flush does not fail for lack of space
FlushFits(r) ==
  r.err = "none" =>
    /\ \A path \in Paths, size \in 0..MaxLen :
         flush(r.h, createFile(r.fs, path, size).fs).err # "RangeError"
    /\ \A d \in FileDescriptors, data \in Buffers(MaxLen) :
         flush(r.h, writeFile(r.fs, d, data).fs).err # "RangeError"

\* C38: when the write and truncate calls on an open SyncAccessHandle
\* succeeded and its file entry is still registered, a subsequent flush()
\* does not fail for lack of disk space, whatever createFile and writeFile
\* calls come in between.
AcceptedBufferCanBeFlushed ==
  \A i \in Handles :
    (/\ handles[i].state = "open"
     /\ isValidDescriptor(FS, handles[i].fileDescriptor)) =>
      /\ \A buffer \in Buffers(MaxLen), options \in AtOptions :
           FlushFits(write(handles[i], FS, buffer, options))
      /\ \A n \in 0..MaxBuf : FlushFits(truncate(handles[i], FS, n))


\* ---------------------------------------------------------------- C39
Coupled(permission) ==
  permission.readwrite = "granted" => permission.read = "granted"

\* What the spies of the Permission of p saw during a call that left the
\* heap after: the final pair of the call, and a coupled one
SawFinalPair(after, p) ==
  \A k \in 1..Len(after[p].calls) :
    /\ after[p].calls[k].read = after[p].read
    /\ after[p].calls[k].readwrite = after[p].readwrite
    /\ Coupled(after[p].calls[k])

\* C39: whenever a Permission invokes a subscriber, its own read/readwrite
\* pair is already in its final state for the triggering call and has
\* readwrite granted only with read granted (given it had before the call):
\* no subscriber observes a half-applied setRead or setReadwrite.
SubscribersSeeFinalState ==
  \A p \in Paths, mode \in Modes, state \in States :
    (permissions[p] # NoPermission /\ Coupled(permissions[p])) =>
      SawFinalPair(set(clearMocks(permissions), p, mode, state), p)


\* ---------------------------------------------------------------- C40
\* The calls of the claim: setState, duplicate, and requestPermission with
\* the answer of the resolver it may invoke
LaterCalls ==
  [op : {"setState"}, path : Paths, to : {Root}, mode : Modes, state : States]
  \cup [op : {"duplicate"}, path : Paths, to : Paths, mode : {"read"},
        state : {"granted"}]
  \cup [op : {"requestPermission"}, path : Paths, to : {Root}, mode : Modes,
        state : ResolvedStates]

\* The heap the call leaves when made on the heap pm
AfterCall(pm, call, initial) ==
  IF call.op = "setState"
  THEN setState(pm, FS, call.path, call.mode, call.state, initial).pm
  ELSE IF call.op = "duplicate"
  THEN duplicate(pm, FS, call.path, call.to, initial).pm
  ELSE LET resumed(r) ==
             IF r.ret = "pending"
             THEN requestPermissionResume(r.pm, call.path, call.mode,
                                          call.state).pm
             ELSE r.pm
       IN resumed(requestPermission(pm, FS, promptPermissionProvider,
                                    call.path, call.mode, initial))

\* What later getState calls return on the heap pm, for every path and mode
Observed(pm, initial) ==
  LET pairs(all) == [path \in Paths |-> <<all[path].read, all[path].readwrite>>]
      got(heap, path) == getState(heap, FS, path, "read", initial).pm
  IN pairs(got(got(got(got(pm, Root), A), AB), <<"c">>))

\* C40: lazy creation of Permissions is unobservable: whatever
\* PermissionsProvider.initial returns, an extra getState or getStatus call
\* before a setState, duplicate or requestPermission call changes the value
\* of no later getState call.
LazyCreationUnobservable ==
  \A extra \in Paths, call \in LaterCalls :
    \A initial \in InitialChoices({Root}) :
      Observed(AfterCall(getState(permissions, FS, extra, "read", initial).pm,
                         call, initial), initial)
        = Observed(AfterCall(permissions, call, initial), initial)

====
